---- MODULE Spec2Model ----
(***************************************************************************)
(* A state-machine model of the docs_agent chat backend:                   *)
(*   - the Socket.IO chat_message handler with its three answer tiers      *)
(*     (Knowledge Base -> direct Bedrock call -> echo), api/websocket.py   *)
(*   - the HTTP chat endpoint, api/chat.py                                 *)
(*   - the SQLite message store, db/database.py                            *)
(*   - the in-memory ConversationStore, conversation_store.py              *)
(*                                                                         *)
(* Text is a sequence of atoms.  An atom is one character of a message     *)
(* ("a", " ", "\n"), or one whitespace-free word of a fixed phrase         *)
(* ("Sorry,", "[echo"); whitespace is always an atom of its own, so        *)
(* str.split(), str.strip(), str.lower() and str.startswith() are computed *)
(* on the atoms exactly as Python computes them on the characters.         *)
(***************************************************************************)
EXTENDS Integers, Sequences, FiniteSets, TLC

None == "None"

(***************************************************************************)
(* Bounds of the model.                                                    *)
(***************************************************************************)
\* number of chat turns (one chat_message event or one HTTP chat request each)
MaxTurns == 2
\* number of text deltas one direct Bedrock stream yields at most
MaxDirectTokens == 2
\* ConversationStore: number of calls made in one behaviour
MaxStoreOps == 4
MaxDbOps == 3
MaxRetrieverOps == 2
SearchesPerCaller == 1
\* Retriever: searches one caller makes one after the other
SearchesInSequence == 3
MaxCorpusSize == 2
MaxTopK == 2
\* S3VectorStore: number of calls made in one behaviour, largest batch
MaxS3Ops == 3
MaxBatch == 2
\* EmbeddingsGenerator: the largest max_retries and retry_delay
MaxRetriesBound == 3
RetryDelayBound == 2
\* build_rag_prompt: the longest conversation_history
MaxHistory == 10
\* ConversationStore: the largest max_sessions and max_messages_per_session
StoreSessionsBound == 2
StoreMessagesBound == 2

(***************************************************************************)
(* Program constants.                                                      *)
(***************************************************************************)
\* ChatMessageRequest.message: Field(..., min_length=1, max_length=10000)
MinMessageLength == 1
MaxMessageLength == 10000

(***************************************************************************)
(* Text: str operations of Python on sequences of atoms.                   *)
(***************************************************************************)
IsSpace(a) == a \in {" ", "\n"}

\* the atom "X9999" stands for a run of 9999 non-blank characters
AtomLen(a) == IF a = "X9999" THEN 9999 ELSE 1

RECURSIVE TextLen(_)
TextLen(text) ==
    IF text = <<>> THEN 0 ELSE AtomLen(Head(text)) + TextLen(Tail(text))

RECURSIVE SplitAcc(_, _, _)
SplitAcc(text, cur, acc) ==
    IF text = <<>>
    THEN IF cur = <<>> THEN acc ELSE Append(acc, cur)
    ELSE IF IsSpace(Head(text))
         THEN SplitAcc(Tail(text), <<>>, IF cur = <<>> THEN acc ELSE Append(acc, cur))
         ELSE SplitAcc(Tail(text), Append(cur, Head(text)), acc)

\* str.split(): the maximal whitespace-free runs, in order
Split(text) == SplitAcc(text, <<>>, <<>>)

RECURSIVE Concat(_)
Concat(parts) ==
    IF parts = <<>> THEN <<>> ELSE Head(parts) \o Concat(Tail(parts))

RECURSIVE LStrip(_)
LStrip(text) ==
    IF text # <<>> /\ IsSpace(Head(text)) THEN LStrip(Tail(text)) ELSE text

RECURSIVE RStrip(_)
RStrip(text) ==
    IF text # <<>> /\ IsSpace(text[Len(text)])
    THEN RStrip(SubSeq(text, 1, Len(text) - 1))
    ELSE text

\* str.strip()
Strip(text) == RStrip(LStrip(text))

LowerAtom(a) ==
    CASE a = "Sorry," -> "sorry,"
      [] a = "SORRY," -> "sorry,"
      [] a = "I"      -> "i"
      [] a = "Unable" -> "unable"
      [] OTHER        -> a

\* str.lower()
Lower(text) == [i \in DOMAIN text |-> LowerAtom(text[i])]

\* str.startswith(prefix)
StartsWith(text, prefix) ==
    /\ Len(text) >= Len(prefix)
    /\ SubSeq(text, 1, Len(prefix)) = prefix

\* the literal "sorry, i am unable"
RefusalPrefix == <<"sorry,", " ", "i", " ", "am", " ", "unable">>

\* a refusal test that forgets .lower()
IsRefusal_case_sensitive(text) == StartsWith(Strip(text), RefusalPrefix)

\* full_response.strip().lower().startswith("sorry, i am unable")
IsRefusal(text) == StartsWith(Lower(Strip(text)), RefusalPrefix)

\* the literal f-string prefix of the echo answer; the Korean words of the
\* source are written here with ASCII stand-ins, one atom per word:
\* "[에코 모드] 메시지를 받았습니다: "
EchoPrefix == <<"[echo", " ", "mode]", " ", "received", " ", "message:", " ">>

\* f"[에코 모드] 메시지를 받았습니다: {request.message}"
EchoContent(message) == EchoPrefix \o message

\* word + (" " if not is_last else "") for the words of a text, in order
WordTokens(text) ==
    LET words == Split(text)
    IN  [i \in 1..Len(words) |->
            IF i = Len(words) THEN words[i] ELSE words[i] \o <<" ">>]


(***************************************************************************)
(* Input domains.                                                          *)
(***************************************************************************)
\* the one Socket.IO client of the model
Sids == {"c1"}

\* session ids a client supplies
SessionIds == {"s1"}

\* str(uuid.uuid4()): a fresh id, different for every call site and turn
Uuid(tag, t) == tag \o ToString(t)

\* message texts of valid length, with and without runs of whitespace
ValidMessages == { <<"a">>, <<"a", " ", " ", "b">> }

\* the empty message and a message of 10001 characters
InvalidMessages == { <<>>, <<"X9999", "a", "b">> }

\* the data of a chat_message event: sessionId may be missing
Payloads ==
    [sessionId : SessionIds \cup {None}, message : ValidMessages \cup InvalidMessages]

\* answers of the retrieve-and-generate service (response.answer)
KbAnswers ==
    { <<"k1", " ", " ", "k2">>,
      <<>>,
      <<" ", "Sorry,", " ", "I", " ", "am", " ", "unable", " ", "k1">> }

\* text deltas of the direct Bedrock stream
DirectTokens == { <<"d1", " ">> }

(***************************************************************************)
(* Exceptions.  A raised exception is the name of its class.               *)
(***************************************************************************)
\* what boto3 raises inside BedrockClient.invoke_stream
RawStreamErrors ==
    {"ClientError:ThrottlingException", "ClientError:Other", "BotoCoreError", "Exception"}

\* the class names of bedrock_client.py that derive from BedrockError
BedrockErrorClasses ==
    {"BedrockError", "BedrockConnectionError", "BedrockInvocationError",
     "BedrockRateLimitError"}

\* the except clauses of BedrockClient.invoke_stream
MapStreamError(raw) ==
    CASE raw = "ClientError:ThrottlingException" -> "BedrockRateLimitError"
      [] raw = "ClientError:Other"               -> "BedrockInvocationError"
      [] raw = "BotoCoreError"                   -> "BedrockConnectionError"
      [] OTHER                                   -> "BedrockError"

\* an except clause that names one subclass only
IsBedrockError_invocation_only(exc) == exc = "BedrockInvocationError"

\* except BedrockError as e: (in _send_bedrock_response)
IsBedrockError(exc) == exc \in BedrockErrorClasses

(***************************************************************************)
(* db/database.py: the messages table, rows in ascending id order.         *)
(***************************************************************************)
Row(message_id, session_id, role, content) ==
    [message_id |-> message_id, session_id |-> session_id,
     role |-> role, content |-> content]

\* a table whose UNIQUE column is session_id
InsertOrReplace_by_session(rows, row) ==
    Append(SelectSeq(rows, LAMBDA r : r.session_id # row.session_id), row)

\* a plain INSERT into a table without the UNIQUE constraint
InsertOrReplace_insert_only(rows, row) == Append(rows, row)

\* INSERT OR REPLACE INTO messages: a row with the same message_id is
\* deleted, the new row gets the next (largest) autoincrement id
InsertOrReplace(rows, row) ==
    Append(SelectSeq(rows, LAMBDA r : r.message_id # row.message_id), row)

\* SELECT ... WHERE session_id = ? ORDER BY id ASC
SessionRows(rows, session_id) ==
    SelectSeq(rows, LAMBDA r : r.session_id = session_id)

\* get_session_history: role and content of the session's rows
SessionHistory(rows, session_id) ==
    LET sel == SessionRows(rows, session_id)
    IN  [i \in DOMAIN sel |-> [role |-> sel[i].role, content |-> sel[i].content]]


(***************************************************************************)
(* State.                                                                  *)
(***************************************************************************)
VARIABLES
    \* db/database.py
    dbMessages,          \* the rows of table messages, ascending id
    dbSessions,          \* the session_id column of table sessions
    \* api/websocket.py, api/chat.py, bedrock_client.py: module globals
    kb_client,           \* _kb_client (None or the client)
    bedrock_client,      \* _bedrock_client (None or the client)
    connected_sessions,  \* sid -> session_id, None when the sid has no entry
    closed,              \* the sids whose connection has ended
    \* one chat turn: the locals of its handler
    nturns,              \* number of turns started so far
    turn,                \* the turn a handler is running: its number and entry point
    pc,                  \* position of the turn's handler
    request,             \* the validated request
    history,             \* history = get_session_history(...)
    full_response,       \* full_response
    stream,              \* what the running generator still has to yield
    caller,              \* the call site of _send_bedrock_response
    \* what the outside sees of a turn
    emitted,             \* the events sent to the client, in order
    yielded,             \* the tokens the tier now running has yielded
    tierlog              \* the tiers entered and how each ended, in order

chatVars ==
    <<dbMessages, dbSessions, kb_client, bedrock_client, connected_sessions,
      closed, nturns, turn, pc, request, history, full_response, stream, caller,
      emitted, yielded, tierlog>>

\* conversation_store.py: the fields of the ConversationStore and its callers
VARIABLES
    max_sessions,               \* self._max_sessions
    max_messages_per_session,   \* self._max_messages_per_session
    sessions,                   \* self._sessions: <<[id, messages]>>
    lock,                       \* the thread that holds self._lock, or None
    tpc,                        \* where each thread is
    targ,                       \* the arguments of the call a thread is in
    ret,                        \* what the last call of each thread returned
    nops,                       \* number of calls made so far
    last_evicted,               \* the ids the last create_session evicted
    last_used                   \* id -> when the session was last used (0: not stored)

storeVars ==
    <<max_sessions, max_messages_per_session, sessions, lock, tpc, targ, ret,
      nops, last_evicted, last_used>>

\* callers of db/database.py other than the chat handlers
VARIABLES
    dbret                       \* what the last call of the durable store returned

\* rag/retriever.py: a Retriever, its vector store and its callers
VARIABLES
    corpus,                     \* the vector records in S3, in listing order
    vectors_cache,              \* self._vectors_cache: [loaded, records]
    self_top_k,                 \* self.top_k
    self_min_similarity,        \* self.min_similarity
    rpc,                        \* where each caller is in search
    rloc,                       \* the locals of each caller's search
    rret,                       \* what each caller's last search returned
    rops,                       \* number of cache and store calls made so far
    embed_calls                 \* number of embed_text calls made so far

retrieverVars ==
    <<corpus, vectors_cache, self_top_k, self_min_similarity, rpc, rloc, rret,
      rops, embed_calls>>

\* S3VectorStore
VARIABLES
    vector_objects,             \* the vector objects in the bucket, by key
    index_object,               \* the index object in the bucket
    index_cache,                \* self._index_cache
    s3ret,                      \* what the last call of the store returned
    s3ops                       \* number of calls made so far

s3Vars == <<vector_objects, index_object, index_cache, s3ret, s3ops>>

\* EmbeddingsGenerator
VARIABLES
    self_max_retries,           \* self.max_retries
    self_retry_delay,           \* self.retry_delay
    epc,                        \* where embed_text is
    eloc                        \* the locals of embed_text and what it did

embedVars == <<self_max_retries, self_retry_delay, epc, eloc>>

\* the functions of rag/chain.py and rag/retriever.py called on their own
VARIABLES
    pret                        \* the last call: its arguments and its result

restVars == <<dbret, retrieverVars, s3Vars, embedVars, pret>>

TheSid == CHOOSE sid \in Sids : TRUE

\* user_message_id = str(uuid.uuid4()); ai_message_id = str(uuid.uuid4())
UserMessageId(h) == Uuid("user-", turn[h].n)
AiMessageId(h) == Uuid("ai-", turn[h].n)

Event(event, tier, session_id, content, exc) ==
    [event |-> event, tier |-> tier, session_id |-> session_id,
     content |-> content, exc |-> exc]

\* an entry of tierlog: a tier, what happened to it, and the exception raised
\* or the answer received
Log(tier, what, info) == [tier |-> tier, what |-> what, info |-> info, text |-> <<>>]

\* response.answer has arrived
LogAnswer(answer) ==
    [tier |-> "managed", what |-> "answered", info |-> None, text |-> answer]

\* no request parsed (yet)
NoRequest == [sessionId |-> None, message |-> <<>>]

Handlers == DOMAIN pc

InitChat(handlers) ==
    /\ nturns = 0
    /\ turn = [h \in handlers |-> [n |-> 0, entry |-> None]]
    /\ dbMessages = <<>>
    /\ dbSessions = {}
    /\ kb_client = None
    /\ bedrock_client = None
    /\ connected_sessions = [sid \in Sids |-> None]
    /\ closed = {}
    /\ pc = [h \in handlers |-> "idle"]
    /\ request = [h \in handlers |-> NoRequest]
    /\ history = [h \in handlers |-> <<>>]
    /\ full_response = [h \in handlers |-> <<>>]
    /\ stream = [h \in handlers |-> <<>>]
    /\ caller = [h \in handlers |-> None]
    /\ emitted = [h \in handlers |-> <<>>]
    /\ yielded = [h \in handlers |-> <<>>]
    /\ tierlog = [h \in handlers |-> <<>>]

(***************************************************************************)
(* db/database.py: save_message.  create_session commits the sessions row  *)
(* on a connection of its own before the message row is written, so a     *)
(* failing save leaves the sessions row behind or not, depending on where  *)
(* sqlite3 raised.                                                         *)
(***************************************************************************)
SaveOutcomes == {"ok", "fail", "fail_after_create_session"}

\* a save that raises after its commit
save_message_commit_then_raise(outcome, message_id, session_id, role, content) ==
    /\ dbMessages' =
          IF outcome # "fail"
          THEN InsertOrReplace(dbMessages, Row(message_id, session_id, role, content))
          ELSE dbMessages
    /\ dbSessions' =
          IF outcome = "fail" THEN dbSessions ELSE dbSessions \cup {session_id}

\* a save that returns without having written the row
save_message_not_written(outcome, message_id, session_id, role, content) ==
    /\ dbMessages' = dbMessages
    /\ dbSessions' =
          IF outcome = "fail" THEN dbSessions ELSE dbSessions \cup {session_id}

\* save_message: the row is in the table only when the save returned
save_message(outcome, message_id, session_id, role, content) ==
    /\ dbMessages' =
          IF outcome = "ok"
          THEN InsertOrReplace(dbMessages, Row(message_id, session_id, role, content))
          ELSE dbMessages
    /\ dbSessions' =
          IF outcome = "fail" THEN dbSessions ELSE dbSessions \cup {session_id}

(***************************************************************************)
(* api/websocket.py                                                        *)
(***************************************************************************)
\* a request model without max_length
ValidRequest_no_max_length(data) ==
    /\ data.sessionId # None
    /\ TextLen(data.message) >= MinMessageLength

\* ChatMessageRequest(**data)
ValidRequest(data) ==
    /\ data.sessionId # None
    /\ TextLen(data.message) >= MinMessageLength
    /\ TextLen(data.message) <= MaxMessageLength

\* connect: the session id of auth, or a fresh one
Connect(sid, auth) ==
    /\ connected_sessions[sid] = None
    /\ sid \notin closed
    /\ UNCHANGED <<nturns, turn, closed, storeVars, restVars>>
    /\ connected_sessions' =
          [connected_sessions EXCEPT ![sid] = IF auth # None THEN auth ELSE Uuid("conn-", 0)]
    /\ UNCHANGED <<dbMessages, dbSessions, kb_client, bedrock_client, pc, request,
                   history, full_response, stream, caller, emitted, yielded, tierlog>>

\* disconnect: connected_sessions.pop(sid, None); running handlers go on
Disconnect(sid) ==
    /\ connected_sessions[sid] # None
    /\ closed' = closed \cup {sid}
    /\ UNCHANGED <<nturns, turn, storeVars, restVars>>
    /\ connected_sessions' = [connected_sessions EXCEPT ![sid] = None]
    /\ UNCHANGED <<dbMessages, dbSessions, kb_client, bedrock_client, pc, request,
                   history, full_response, stream, caller, emitted, yielded, tierlog>>

\* the except clause that ends chat_message: one chat_error event
ChatErrorEvent(cs, exc) ==
    Event("chat_error", None,
          IF cs[TheSid] # None THEN cs[TheSid] ELSE "unknown", <<>>, exc)

\* a handler that is free takes the next turn: its locals start afresh
StartTurn(h, entry) ==
    /\ pc[h] \in {"idle", "done"}
    /\ nturns < MaxTurns
    /\ nturns' = nturns + 1
    /\ turn' = [turn EXCEPT ![h] = [n |-> nturns + 1, entry |-> entry]]
    /\ full_response' = [full_response EXCEPT ![h] = <<>>]
    /\ stream' = [stream EXCEPT ![h] = <<>>]
    /\ caller' = [caller EXCEPT ![h] = None]
    /\ yielded' = [yielded EXCEPT ![h] = <<>>]
    /\ UNCHANGED <<closed, storeVars, restVars>>

\* chat_message up to the saved user message
Receive(h, data) ==
    /\ StartTurn(h, "chat_message")
    /\ connected_sessions[TheSid] # None
    /\ UNCHANGED <<kb_client, bedrock_client>>
    /\ IF ~ValidRequest(data)
       THEN /\ emitted' = [emitted EXCEPT ![h] =
                              <<ChatErrorEvent(connected_sessions, "ValidationError")>>]
            /\ pc' = [pc EXCEPT ![h] = "done"]
            /\ request' = [request EXCEPT ![h] = NoRequest]
            /\ history' = [history EXCEPT ![h] = <<>>]
            /\ tierlog' = [tierlog EXCEPT ![h] = <<>>]
            /\ UNCHANGED <<dbMessages, dbSessions, connected_sessions>>
       ELSE /\ connected_sessions' = [connected_sessions EXCEPT ![TheSid] = data.sessionId]
            /\ request' = [request EXCEPT ![h] = data]
            /\ \/ \* get_session_history raises
                  /\ emitted' = [emitted EXCEPT ![h] =
                                    <<ChatErrorEvent(connected_sessions', "StorageError")>>]
                  /\ pc' = [pc EXCEPT ![h] = "done"]
                  /\ history' = [history EXCEPT ![h] = <<>>]
                  /\ tierlog' = [tierlog EXCEPT ![h] = <<>>]
                  /\ UNCHANGED <<dbMessages, dbSessions>>
               \/ /\ history' = [history EXCEPT ![h] =
                                    SessionHistory(dbMessages, data.sessionId)]
                  /\ \E outcome \in SaveOutcomes :
                        /\ save_message(outcome, Uuid("user-", nturns + 1), data.sessionId,
                                        "user", data.message)
                        /\ IF outcome = "ok"
                           THEN /\ pc' = [pc EXCEPT ![h] = "generate"]
                                /\ emitted' = [emitted EXCEPT ![h] = <<>>]
                                /\ tierlog' = [tierlog EXCEPT ![h] =
                                      <<Log("user", "saved", None)>>]
                           ELSE /\ emitted' = [emitted EXCEPT ![h] =
                                       <<ChatErrorEvent(connected_sessions', "StorageError")>>]
                                /\ pc' = [pc EXCEPT ![h] = "done"]
                                /\ tierlog' = [tierlog EXCEPT ![h] = <<>>]

\* get_kb_client(): the client, created on first use; creation may raise,
\* which leaves _kb_client None
get_kb_client(created) ==
    IF kb_client # None THEN kb_client
    ELSE IF created THEN "kb" ELSE None

\* chat_message from `sources = []` to the first suspension: get_kb_client,
\* then the first step of retrieve_and_generate_stream, which fetches the
\* whole answer (retrieve_and_generate) before it yields a word
Generate(h) ==
    /\ pc[h] = "generate"
    /\ UNCHANGED <<nturns, turn, closed, storeVars, restVars>>
    /\ UNCHANGED <<dbMessages, dbSessions, bedrock_client, connected_sessions,
                   request, history, emitted>>
    /\ \E created \in BOOLEAN :
        /\ kb_client' = get_kb_client(created)
        /\ IF kb_client' # None
           THEN \/ \* retrieve_and_generate raises: except Exception, line 244
                   /\ tierlog' = [tierlog EXCEPT ![h] =
                         @ \o <<Log("managed", "enter", None),
                                Log("managed", "failed", "KbError")>>]
                   /\ caller' = [caller EXCEPT ![h] = "except"]
                   /\ pc' = [pc EXCEPT ![h] = "direct_start"]
                   /\ UNCHANGED <<full_response, stream, yielded>>
                \/ \E answer \in KbAnswers :
                   /\ tierlog' = [tierlog EXCEPT ![h] =
                         @ \o <<Log("managed", "enter", None),
                                LogAnswer(answer)>>]
                   /\ full_response' = [full_response EXCEPT ![h] = <<>>]
                   /\ stream' = [stream EXCEPT ![h] = WordTokens(answer)]
                   /\ yielded' = [yielded EXCEPT ![h] = <<>>]
                   /\ pc' = [pc EXCEPT ![h] = "kb_stream"]
                   /\ UNCHANGED caller
           ELSE \* no Knowledge Base: the call of line 250
                /\ caller' = [caller EXCEPT ![h] = "else"]
                /\ pc' = [pc EXCEPT ![h] = "direct_start"]
                /\ UNCHANGED <<full_response, stream, yielded, tierlog>>

\* one round of the async for over retrieve_and_generate_stream:
\* full_response += token, emit chat_response_chunk, sleep
KbToken(h) ==
    /\ pc[h] = "kb_stream"
    /\ UNCHANGED <<nturns, turn, closed, storeVars, restVars>>
    /\ stream[h] # <<>>
    /\ full_response' = [full_response EXCEPT ![h] = @ \o Head(stream[h])]
    /\ yielded' = [yielded EXCEPT ![h] = Append(@, Head(stream[h]))]
    /\ emitted' = [emitted EXCEPT ![h] =
          Append(@, Event("chat_response_chunk", "managed", request[h].sessionId,
                          Head(stream[h]), None))]
    /\ stream' = [stream EXCEPT ![h] = Tail(@)]
    /\ UNCHANGED <<dbMessages, dbSessions, kb_client, bedrock_client,
                   connected_sessions, pc, request, history, caller, tierlog>>

\* the stream is exhausted: the refusal test, save_message and
\* chat_response_complete
KbFinish(h) ==
    /\ pc[h] = "kb_stream"
    /\ UNCHANGED <<nturns, turn, closed, storeVars, restVars>>
    /\ stream[h] = <<>>
    /\ UNCHANGED <<kb_client, bedrock_client, connected_sessions, request, history,
                   full_response, stream, yielded>>
    /\ IF IsRefusal(full_response[h])
       THEN \* the call of line 231, inside the try block
            /\ tierlog' = [tierlog EXCEPT ![h] = Append(@, Log("managed", "refused", None))]
            /\ caller' = [caller EXCEPT ![h] = "try"]
            /\ pc' = [pc EXCEPT ![h] = "direct_start"]
            /\ UNCHANGED <<dbMessages, dbSessions, emitted>>
       ELSE \E outcome \in SaveOutcomes :
            /\ save_message(outcome, AiMessageId(h), request[h].sessionId,
                            "assistant", full_response[h])
            /\ IF outcome = "ok"
               THEN /\ tierlog' = [tierlog EXCEPT ![h] =
                          Append(@, Log("managed", "completed", None))]
                    /\ emitted' = [emitted EXCEPT ![h] =
                          Append(@, Event("chat_response_complete", "managed",
                                          request[h].sessionId, <<>>, None))]
                    /\ pc' = [pc EXCEPT ![h] = "done"]
                    /\ UNCHANGED caller
               ELSE \* sqlite3 raised: except Exception, line 244
                    /\ tierlog' = [tierlog EXCEPT ![h] =
                          Append(@, Log("managed", "save_failed", "StorageError"))]
                    /\ caller' = [caller EXCEPT ![h] = "except"]
                    /\ pc' = [pc EXCEPT ![h] = "direct_start"]
                    /\ UNCHANGED emitted

\* a handler that reports every exception to the client and still retries
Raise_reports_and_retries(h, exc) ==
    /\ emitted' = [emitted EXCEPT ![h] =
          Append(@, ChatErrorEvent(connected_sessions, exc))]
    /\ IF caller[h] = "try"
       THEN /\ caller' = [caller EXCEPT ![h] = "except"]
            /\ pc' = [pc EXCEPT ![h] = "direct_start"]
       ELSE /\ pc' = [pc EXCEPT ![h] = "done"]
            /\ UNCHANGED caller

\* where an exception that leaves _send_bedrock_response goes: raised under
\* the call of line 231 it is caught by `except Exception` of line 244, which
\* calls _send_bedrock_response again (line 246); raised under the calls of
\* lines 246 and 250 it reaches the last except clause and becomes chat_error
Raise(h, exc) ==
    IF caller[h] = "try"
    THEN /\ caller' = [caller EXCEPT ![h] = "except"]
         /\ pc' = [pc EXCEPT ![h] = "direct_start"]
         /\ UNCHANGED emitted
    ELSE /\ emitted' = [emitted EXCEPT ![h] =
               Append(@, ChatErrorEvent(connected_sessions, exc))]
         /\ pc' = [pc EXCEPT ![h] = "done"]
         /\ UNCHANGED caller

\* an exception raised inside the try block of _send_bedrock_response, the
\* tier's log being `log`: `except BedrockError` starts _send_echo_response
\* (its answer and its words are computed before its first emit); any other
\* exception leaves the function
DirectRaise(h, log, exc) ==
    IF IsBedrockError(exc)
    THEN /\ tierlog' = [tierlog EXCEPT ![h] =
               log \o <<Log("direct", "failed", None), Log("echo", "enter", None)>>]
         /\ stream' = [stream EXCEPT ![h] = WordTokens(EchoContent(request[h].message))]
         /\ yielded' = [yielded EXCEPT ![h] = <<>>]
         /\ pc' = [pc EXCEPT ![h] = "echo_stream"]
         /\ UNCHANGED <<emitted, caller>>
    ELSE /\ tierlog' = [tierlog EXCEPT ![h] = Append(log, Log("direct", "raised", exc))]
         /\ Raise(h, exc)
         /\ UNCHANGED <<stream, yielded>>

\* _send_bedrock_response up to the stream: get_bedrock_client() builds the
\* client on first use and raises BedrockConnectionError when that fails
DirectStart(h) ==
    /\ pc[h] = "direct_start"
    /\ UNCHANGED <<nturns, turn, closed, storeVars, restVars>>
    /\ UNCHANGED <<dbMessages, dbSessions, kb_client, connected_sessions, request,
                   history>>
    /\ full_response' = [full_response EXCEPT ![h] = <<>>]
    /\ \/ /\ bedrock_client' = "bedrock"
          /\ tierlog' = [tierlog EXCEPT ![h] = Append(@, Log("direct", "enter", None))]
          /\ yielded' = [yielded EXCEPT ![h] = <<>>]
          /\ pc' = [pc EXCEPT ![h] = "direct_stream"]
          /\ UNCHANGED <<stream, emitted, caller>>
       \/ /\ bedrock_client = None
          /\ UNCHANGED bedrock_client
          /\ DirectRaise(h, Append(tierlog[h], Log("direct", "enter", None)),
                         "BedrockConnectionError")

\* one step of the async for over invoke_stream: a text delta (added to
\* full_response and emitted), an error of boto3 (re-raised by invoke_stream
\* as a BedrockError), or the end of the stream (save_message and
\* chat_response_complete)
DirectStep(h) ==
    /\ pc[h] = "direct_stream"
    /\ UNCHANGED <<nturns, turn, closed, storeVars, restVars>>
    /\ UNCHANGED <<kb_client, bedrock_client, connected_sessions, request, history>>
    /\ \/ \E token \in DirectTokens :
          /\ Len(yielded[h]) < MaxDirectTokens
          /\ full_response' = [full_response EXCEPT ![h] = @ \o token]
          /\ yielded' = [yielded EXCEPT ![h] = Append(@, token)]
          /\ emitted' = [emitted EXCEPT ![h] =
                Append(@, Event("chat_response_chunk", "direct",
                                request[h].sessionId, token, None))]
          /\ UNCHANGED <<dbMessages, dbSessions, pc, stream, caller, tierlog>>
       \/ \E raw \in RawStreamErrors :
          /\ DirectRaise(h, tierlog[h], MapStreamError(raw))
          /\ UNCHANGED <<dbMessages, dbSessions, full_response>>
       \/ \E outcome \in SaveOutcomes :
          /\ save_message(outcome, AiMessageId(h), request[h].sessionId,
                          "assistant", full_response[h])
          /\ UNCHANGED <<full_response, stream, yielded>>
          /\ IF outcome = "ok"
             THEN /\ tierlog' = [tierlog EXCEPT ![h] =
                        Append(@, Log("direct", "completed", None))]
                  /\ emitted' = [emitted EXCEPT ![h] =
                        Append(@, Event("chat_response_complete", "direct",
                                        request[h].sessionId, <<>>, None))]
                  /\ pc' = [pc EXCEPT ![h] = "done"]
                  /\ UNCHANGED caller
             ELSE /\ tierlog' = [tierlog EXCEPT ![h] =
                        Append(@, Log("direct", "save_failed", "StorageError"))]
                  /\ Raise(h, "StorageError")

\* one round of the for loop of _send_echo_response: emit the word, sleep
EchoToken(h) ==
    /\ pc[h] = "echo_stream"
    /\ UNCHANGED <<nturns, turn, closed, storeVars, restVars>>
    /\ stream[h] # <<>>
    /\ yielded' = [yielded EXCEPT ![h] = Append(@, Head(stream[h]))]
    /\ emitted' = [emitted EXCEPT ![h] =
          Append(@, Event("chat_response_chunk", "echo", request[h].sessionId,
                          Head(stream[h]), None))]
    /\ stream' = [stream EXCEPT ![h] = Tail(@)]
    /\ UNCHANGED <<dbMessages, dbSessions, kb_client, bedrock_client,
                   connected_sessions, pc, request, history, full_response,
                   caller, tierlog>>

\* after the loop: save_message(response_content) and chat_response_complete
EchoFinish(h) ==
    /\ pc[h] = "echo_stream"
    /\ UNCHANGED <<nturns, turn, closed, storeVars, restVars>>
    /\ stream[h] = <<>>
    /\ UNCHANGED <<kb_client, bedrock_client, connected_sessions, request, history,
                   full_response, stream, yielded>>
    /\ \E outcome \in SaveOutcomes :
          /\ save_message(outcome, AiMessageId(h), request[h].sessionId,
                          "assistant", EchoContent(request[h].message))
          /\ IF outcome = "ok"
             THEN /\ tierlog' = [tierlog EXCEPT ![h] =
                        Append(@, Log("echo", "completed", None))]
                  /\ emitted' = [emitted EXCEPT ![h] =
                        Append(@, Event("chat_response_complete", "echo",
                                        request[h].sessionId, <<>>, None))]
                  /\ pc' = [pc EXCEPT ![h] = "done"]
                  /\ UNCHANGED caller
             ELSE /\ tierlog' = [tierlog EXCEPT ![h] =
                        Append(@, Log("echo", "save_failed", "StorageError"))]
                  /\ Raise(h, "StorageError")

(***************************************************************************)
(* api/chat.py: POST /chat.  The handler never awaits, so it runs as one   *)
(* step.  An exception before its try block surfaces as the framework's    *)
(* 500; one inside becomes HTTPException(500, CHAT_ERROR).                 *)
(***************************************************************************)
HttpRequests == [sessionId : SessionIds \cup {None}, message : ValidMessages]

\* return ChatResponse(...) / raise: the one response of a request
Respond(h, session_id, event, tier, content, exc) ==
    /\ emitted' = [emitted EXCEPT ![h] =
          <<Event(event, tier, session_id, content, exc)>>]
    /\ pc' = [pc EXCEPT ![h] = "done"]

\* save_message(role="assistant") and the response; rows is the table with
\* the user message in it
SaveAndRespond(h, n, session_id, rows, tier, content) ==
    \E o2 \in {"ok", "fail"} :
        /\ dbSessions' = dbSessions \cup {session_id}
        /\ IF o2 = "ok"
           THEN /\ dbMessages' = InsertOrReplace(rows,
                      Row(Uuid("ai-", n), session_id, "assistant", content))
                /\ tierlog' = [tierlog EXCEPT ![h] =
                      <<Log("user", "saved", None),
                        Log(tier, "enter", None),
                        Log(tier, "completed", None)>>]
                /\ Respond(h, session_id, "http_200", tier, content, None)
           ELSE /\ dbMessages' = rows
                /\ tierlog' = [tierlog EXCEPT ![h] =
                      <<Log("user", "saved", None),
                        Log(tier, "enter", None),
                        Log(tier, "save_failed", "StorageError")>>]
                /\ Respond(h, session_id, "http_500_chat_error", tier, <<>>,
                           "StorageError")

chat(h, req) ==
    LET n == nturns + 1
        session_id == IF req.sessionId # None THEN req.sessionId ELSE Uuid("http-", n)
        rows == InsertOrReplace(dbMessages,
                   Row(Uuid("user-", n), session_id, "user", req.message))
    IN
    /\ StartTurn(h, "chat")
    /\ request' = [request EXCEPT ![h] = [sessionId |-> session_id, message |-> req.message]]
    /\ UNCHANGED <<bedrock_client, connected_sessions>>
    /\ \/ \* get_session_history raises
          /\ Respond(h, session_id, "http_500_unhandled", None, <<>>, "StorageError")
          /\ history' = [history EXCEPT ![h] = <<>>]
          /\ tierlog' = [tierlog EXCEPT ![h] = <<>>]
          /\ UNCHANGED <<dbMessages, dbSessions, kb_client>>
       \/ /\ history' = [history EXCEPT ![h] = SessionHistory(dbMessages, session_id)]
          /\ \/ \* the user message is not saved
                \E o1 \in SaveOutcomes \ {"ok"} :
                /\ save_message(o1, Uuid("user-", n), session_id, "user", req.message)
                /\ Respond(h, session_id, "http_500_unhandled", None, <<>>, "StorageError")
                /\ tierlog' = [tierlog EXCEPT ![h] = <<>>]
                /\ UNCHANGED kb_client
             \/ \E created \in BOOLEAN :
                /\ kb_client' = get_kb_client(created)
                /\ IF get_kb_client(created) # None
                   THEN \/ \* retrieve_and_generate raises
                           /\ dbMessages' = rows
                           /\ dbSessions' = dbSessions \cup {session_id}
                           /\ tierlog' = [tierlog EXCEPT ![h] =
                                 <<Log("user", "saved", None),
                                   Log("managed", "enter", None),
                                   Log("managed", "failed", "KbError")>>]
                           /\ Respond(h, session_id, "http_500_chat_error", "managed",
                                      <<>>, "KbError")
                        \/ \E answer \in KbAnswers :
                              SaveAndRespond(h, n, session_id, rows, "managed", answer)
                   ELSE SaveAndRespond(h, n, session_id, rows, "echo",
                                       EchoContent(req.message))

(***************************************************************************)
(* conversation_store.py: ConversationStore.  _sessions is an OrderedDict: *)
(* a sequence of sessions, least recently used first.  Every public method *)
(* runs its body under `with self._lock` (a threading.Lock, which is not   *)
(* reentrant), so a body is one step, taken when the lock is free.         *)
(***************************************************************************)
Threads == {"T1", "T2"}

\* session ids callers use
StoreIds == {"s1", "s2", "s3"}

\* ConversationStore(max_sessions=1000, max_messages_per_session=100)
DefaultMaxSessions == 1000
DefaultMaxMessagesPerSession == 100

\* no message / no return value (yet)
NoMessage == [id |-> None, session_id |-> None, role |-> None, content |-> None]

\* what a method returned: the session (id), a flag, or a message
Ret(op, session_id, ok, message) ==
    [op |-> op, session_id |-> session_id, ok |-> ok, message |-> message]

\* every id a session can have: the callers' and the generated ones
AllStoreIds == StoreIds \cup { Uuid("session_", k) : k \in 1..(MaxStoreOps + 1) }

InitStore(ms, mm) ==
    /\ max_sessions = ms
    /\ max_messages_per_session = mm
    /\ sessions = <<>>
    /\ lock = None
    /\ tpc = [th \in Threads |-> "idle"]
    /\ targ = [th \in Threads |-> NoMessage]
    /\ ret = [th \in Threads |-> Ret(None, None, FALSE, NoMessage)]
    /\ last_used = [id \in AllStoreIds |-> 0]
    /\ nops = 0
    /\ last_evicted = <<>>

SessionIdsOf(ss) == { ss[i].id : i \in DOMAIN ss }

\* session_id in self._sessions
HasSession(ss, id) == id \in SessionIdsOf(ss)

IndexOf(ss, id) == CHOOSE i \in DOMAIN ss : ss[i].id = id

\* an OrderedDict that is never reordered
move_to_end_never(ss, id) == ss

\* self._sessions.move_to_end(session_id)
move_to_end(ss, id) ==
    LET i == IndexOf(ss, id)
    IN  SelectSeq(ss, LAMBDA x : x.id # id) \o <<ss[i]>>

\* an eviction loop that stops one session early
RECURSIVE _evict_off_by_one(_, _)
_evict_off_by_one(ss, limit) ==
    IF Len(ss) > limit + 1 THEN _evict_off_by_one(Tail(ss), limit) ELSE ss

\* _evict_old_sessions: while len(self._sessions) > self._max_sessions,
\* delete the first key
RECURSIVE _evict_old_sessions(_, _)
_evict_old_sessions(ss, limit) ==
    IF Len(ss) > limit THEN _evict_old_sessions(Tail(ss), limit) ELSE ss

\* a create_session that stores a new Session without looking for a stored one
create_session_body_always_new(ss, id, limit) ==
    _evict_old_sessions(
        Append(SelectSeq(ss, LAMBDA x : x.id # id), [id |-> id, messages |-> <<>>]),
        limit)

\* the body of create_session, the lock being held: the sessions afterwards
create_session_body(ss, id, limit) ==
    IF HasSession(ss, id)
    THEN move_to_end(ss, id)
    ELSE _evict_old_sessions(Append(ss, [id |-> id, messages |-> <<>>]), limit)

\* the ids of ss that are no longer in ss2, in the order of ss
Dropped(ss, ss2) ==
    LET gone == SelectSeq(ss, LAMBDA x : ~HasSession(ss2, x.id))
    IN  [i \in DOMAIN gone |-> gone[i].id]

\* the time of the next use: later than every use so far
Tick ==
    LET used == { last_used[id] : id \in AllStoreIds }
    IN  1 + CHOOSE m \in used : \A n \in used : n <= m

\* a step that used session id and left the sessions ss2
Touch(id, ss2) ==
    [i \in AllStoreIds |->
        IF ~HasSession(ss2, i) THEN 0 ELSE IF i = id THEN Tick ELSE last_used[i]]

\* a step that used no session and left the sessions ss2
NoTouch(ss2) ==
    [i \in AllStoreIds |-> IF HasSession(ss2, i) THEN last_used[i] ELSE 0]

Call(th) ==
    /\ tpc[th] = "idle"
    /\ lock = None
    /\ nops < MaxStoreOps
    /\ nops' = nops + 1

StoreFrame == UNCHANGED <<max_sessions, max_messages_per_session, chatVars, restVars>>

\* create_session(session_id): session_id None asks for a generated id
create_session(th, session_id) ==
    LET id == IF session_id = None THEN Uuid("session_", nops + 1) ELSE session_id
        new == Append(sessions, [id |-> id, messages |-> <<>>])
    IN
    /\ Call(th)
    /\ StoreFrame
    /\ sessions' = create_session_body(sessions, id, max_sessions)
    /\ last_evicted' = IF HasSession(sessions, id) THEN <<>> ELSE Dropped(new, sessions')
    /\ ret' = [ret EXCEPT ![th] = Ret("create_session", id, TRUE, NoMessage)]
    /\ last_used' = Touch(id, sessions')
    /\ UNCHANGED <<lock, tpc, targ>>

\* get_session(session_id)
get_session(th, session_id) ==
    /\ Call(th)
    /\ StoreFrame
    /\ sessions' = IF HasSession(sessions, session_id)
                   THEN move_to_end(sessions, session_id) ELSE sessions
    /\ ret' = [ret EXCEPT ![th] =
          Ret("get_session",
              IF HasSession(sessions, session_id) THEN session_id ELSE None,
              HasSession(sessions, session_id), NoMessage)]
    /\ last_used' = Touch(session_id, sessions')
    /\ UNCHANGED <<lock, tpc, targ, last_evicted>>

\* get_or_create_session(session_id): get_session, and when that found
\* nothing the thread goes on to create_session; the lock is free in between
get_or_create_session(th, session_id) ==
    /\ Call(th)
    /\ StoreFrame
    /\ IF HasSession(sessions, session_id)
       THEN /\ sessions' = move_to_end(sessions, session_id)
            /\ ret' = [ret EXCEPT ![th] =
                  Ret("get_or_create_session", session_id, TRUE, NoMessage)]
            /\ last_used' = Touch(session_id, sessions')
            /\ UNCHANGED <<tpc, targ>>
       ELSE /\ tpc' = [tpc EXCEPT ![th] = "get_or_create_session:create_session"]
            /\ targ' = [targ EXCEPT ![th] = [NoMessage EXCEPT !.session_id = session_id]]
            /\ UNCHANGED <<sessions, ret, last_used>>
    /\ UNCHANGED <<lock, last_evicted>>

get_or_create_session_create(th) ==
    LET id == targ[th].session_id
        new == Append(sessions, [id |-> id, messages |-> <<>>])
    IN
    /\ tpc[th] = "get_or_create_session:create_session"
    /\ lock = None
    /\ StoreFrame
    /\ sessions' = create_session_body(sessions, id, max_sessions)
    /\ last_evicted' = IF HasSession(sessions, id) THEN <<>> ELSE Dropped(new, sessions')
    /\ ret' = [ret EXCEPT ![th] = Ret("get_or_create_session", id, TRUE, NoMessage)]
    /\ last_used' = Touch(id, sessions')
    /\ tpc' = [tpc EXCEPT ![th] = "idle"]
    /\ targ' = [targ EXCEPT ![th] = NoMessage]
    /\ UNCHANGED <<lock, nops>>

\* a trim that pops the newest message, pop() for pop(0)
RECURSIVE TrimMessages_newest_first(_, _)
TrimMessages_newest_first(msgs, limit) ==
    IF Len(msgs) > limit
    THEN TrimMessages_newest_first(SubSeq(msgs, 1, Len(msgs) - 1), limit)
    ELSE msgs

\* session.messages.append(message), then pop(0) while the list is longer
\* than max_messages_per_session
RECURSIVE TrimMessages(_, _)
TrimMessages(msgs, limit) ==
    IF Len(msgs) > limit THEN TrimMessages(Tail(msgs), limit) ELSE msgs

\* the body of add_message from `session = self._sessions[session_id]` on
add_message_body(ss, id, message, limit) ==
    LET i == IndexOf(ss, id)
        appended == [ss EXCEPT ![i].messages =
                        TrimMessages(Append(@, message), limit)]
    IN  move_to_end(appended, id)

StoreRoles == {"user", "assistant"}

\* add_message(session_id, role, content).  For a session that is not in the
\* store the method calls self.create_session while it holds self._lock;
\* create_session then waits for that same lock
add_message(th, session_id, role) ==
    LET message == [id |-> Uuid("msg_", nops + 1), session_id |-> session_id,
                    role |-> role, content |-> Uuid("text-", nops + 1)]
    IN
    /\ Call(th)
    /\ StoreFrame
    /\ IF HasSession(sessions, session_id)
       THEN /\ sessions' = add_message_body(sessions, session_id, message,
                                            max_messages_per_session)
            /\ ret' = [ret EXCEPT ![th] = Ret("add_message", session_id, TRUE, message)]
            /\ last_used' = Touch(session_id, sessions')
            /\ UNCHANGED <<lock, tpc, targ>>
       ELSE /\ lock' = th
            /\ tpc' = [tpc EXCEPT ![th] = "add_message:create_session"]
            /\ targ' = [targ EXCEPT ![th] = message]
            /\ UNCHANGED <<sessions, ret, last_used>>
    /\ UNCHANGED last_evicted

\* what add_message goes on to do once create_session has taken the lock:
\* create the session, append the message, return it
add_message_create(th) ==
    /\ tpc[th] = "add_message:create_session"
    /\ lock = None
    /\ StoreFrame
    /\ sessions' = add_message_body(
                      create_session_body(sessions, targ[th].session_id, max_sessions),
                      targ[th].session_id, targ[th], max_messages_per_session)
    /\ ret' = [ret EXCEPT ![th] = Ret("add_message", targ[th].session_id, TRUE, targ[th])]
    /\ last_used' = Touch(targ[th].session_id, sessions')
    /\ tpc' = [tpc EXCEPT ![th] = "idle"]
    /\ targ' = [targ EXCEPT ![th] = NoMessage]
    /\ UNCHANGED <<lock, nops, last_evicted>>

\* clear_session(session_id)
clear_session(th, session_id) ==
    /\ Call(th)
    /\ StoreFrame
    /\ sessions' = IF HasSession(sessions, session_id)
                   THEN [sessions EXCEPT ![IndexOf(sessions, session_id)].messages = <<>>]
                   ELSE sessions
    /\ ret' = [ret EXCEPT ![th] =
          Ret("clear_session", session_id, HasSession(sessions, session_id), NoMessage)]
    /\ last_used' = NoTouch(sessions')
    /\ UNCHANGED <<lock, tpc, targ, last_evicted>>

\* delete_session(session_id)
store_delete_session(th, session_id) ==
    /\ Call(th)
    /\ StoreFrame
    /\ sessions' = SelectSeq(sessions, LAMBDA x : x.id # session_id)
    /\ ret' = [ret EXCEPT ![th] =
          Ret("delete_session", session_id, HasSession(sessions, session_id), NoMessage)]
    /\ last_used' = NoTouch(sessions')
    /\ UNCHANGED <<lock, tpc, targ, last_evicted>>

(***************************************************************************)
(* db/database.py called directly, and DELETE /chat/{session_id}.  The     *)
(* functions never await and every caller runs on the one event loop, so   *)
(* a call is one step.  The calls share the call counter nops.             *)
(***************************************************************************)
DbMessageIds == {"m1", "m2"}
DbSessionIds == {"s1", "s2"}
DbContents == { <<"x">>, <<"y">> }

NoRow == Row(None, None, None, <<>>)

\* what a call returned: for save_message the row and whether it returned
\* (ok) or raised; for delete_session the flag and the endpoint's message;
\* for get_session_history the list
DbRet(op, session_id, ok, row, message, hist) ==
    [op |-> op, session_id |-> session_id, ok |-> ok, row |-> row,
     message |-> message, history |-> hist, call |-> nops + 1]

InitDb ==
    dbret = [op |-> None, session_id |-> None, ok |-> FALSE, row |-> NoRow,
             message |-> None, history |-> <<>>, call |-> 0]

DbCall ==
    /\ nops < MaxDbOps
    /\ nops' = nops + 1

DbFrame ==
    UNCHANGED <<kb_client, bedrock_client, connected_sessions, closed, nturns, turn,
                pc, request, history, full_response, stream, caller, emitted,
                yielded, tierlog, max_sessions, max_messages_per_session, sessions,
                lock, tpc, targ, ret, last_evicted, last_used, retrieverVars,
                s3Vars, embedVars, pret>>

\* save_message(message_id, session_id, role, content)
db_save_message(message_id, session_id, content, outcome) ==
    /\ DbCall
    /\ DbFrame
    /\ save_message(outcome, message_id, session_id, "user", content)
    /\ dbret' = DbRet("save_message", session_id, outcome = "ok",
                      Row(message_id, session_id, "user", content), None, <<>>)

\* get_session_history(session_id)
db_get_session_history(session_id) ==
    /\ DbCall
    /\ DbFrame
    /\ UNCHANGED <<dbMessages, dbSessions>>
    /\ dbret' = DbRet("get_session_history", session_id, TRUE, NoRow, None,
                      SessionHistory(dbMessages, session_id))

\* a delete_session that tests rowcount >= 0
db_delete_session_reports_success(rows, sess, session_id) ==
    [messages |-> SelectSeq(rows, LAMBDA r : r.session_id # session_id),
     sessions |-> sess \ {session_id},
     deleted |-> TRUE]

\* delete_session(session_id): DELETE FROM messages, DELETE FROM sessions;
\* deleted = cursor.rowcount > 0, the row count of the second DELETE
db_delete_session(rows, sess, session_id) ==
    [messages |-> SelectSeq(rows, LAMBDA r : r.session_id # session_id),
     sessions |-> sess \ {session_id},
     deleted |-> session_id \in sess]

\* DELETE /chat/{session_id}
delete_chat_history(session_id) ==
    LET res == db_delete_session(dbMessages, dbSessions, session_id)
    IN
    /\ DbCall
    /\ DbFrame
    /\ dbMessages' = res.messages
    /\ dbSessions' = res.sessions
    /\ dbret' = DbRet("delete_session", session_id, res.deleted, NoRow,
                      IF res.deleted THEN "deleted" ELSE "not found", <<>>)

DbNext ==
    \/ \E m \in DbMessageIds, id \in DbSessionIds, c \in DbContents, o \in SaveOutcomes :
          db_save_message(m, id, c, o)
    \/ \E id \in DbSessionIds : db_get_session_history(id)
    \/ \E id \in DbSessionIds : delete_chat_history(id)
    \/ \E th \in Threads, id \in StoreIds : create_session(th, id)
    \/ \E th \in Threads, id \in StoreIds : store_delete_session(th, id)

(***************************************************************************)
(* rag/retriever.py.  A similarity is a float in the code; here it is the  *)
(* same number in thousandths, exact for the vectors used (their norms are *)
(* whole numbers).  An optional number that was not passed is Absent.      *)
(***************************************************************************)
Absent == 0 - 1
Thousand == 1000

\* settings.top_k_results and settings.min_similarity (0.7)
DefaultTopK == 5
DefaultMinSimilarity == 700
\* EmbeddingsGenerator(max_retries=3, retry_delay=1.0)
DefaultMaxRetries == 3
DefaultRetryDelay == 1
\* conversation_history[-6:]
HistoryWindow == 6

\* `a or b` for an optional number: None and 0 (0.0) are both falsy
PyOr(a, b) == IF a = Absent \/ a = 0 THEN b ELSE a

\* sum(a * b for a, b in zip(vec1, vec2))
RECURSIVE DotProduct(_, _)
DotProduct(vec1, vec2) ==
    IF vec1 = <<>> \/ vec2 = <<>> THEN 0
    ELSE Head(vec1) * Head(vec2) + DotProduct(Tail(vec1), Tail(vec2))

\* math.sqrt on the sums of squares that occur
Sqrt(n) == CHOOSE r \in 0..n : r * r <= n /\ (r + 1) * (r + 1) > n

\* cosine_similarity raises ValueError for vectors of different lengths
DimensionMismatch(vec1, vec2) == Len(vec1) # Len(vec2)

\* cosine_similarity for vectors of one length
cosine_similarity(vec1, vec2) ==
    LET dot_product == DotProduct(vec1, vec2)
        norm1 == Sqrt(DotProduct(vec1, vec1))
        norm2 == Sqrt(DotProduct(vec2, vec2))
    IN  IF vec1 = <<>> \/ vec2 = <<>> THEN 0
        ELSE IF norm1 = 0 \/ norm2 = 0 THEN 0
        ELSE (dot_product * Thousand) \div (norm1 * norm2)

\* SearchResult(chunk_id, ..., similarity)
SearchResult(record, similarity) ==
    [chunk_id |-> record.chunk_id, similarity |-> similarity]

\* the loop over the records: the results that pass similarity >= min_sim,
\* in the order of the records
Filtered(query_embedding, records, min_sim) ==
    LET scored == [i \in DOMAIN records |->
                      SearchResult(records[i],
                          cosine_similarity(query_embedding, records[i].embedding))]
    IN  SelectSeq(scored, LAMBDA x : x.similarity >= min_sim)

\* the result is put before the results that are as similar
RECURSIVE Insert_before_equals(_, _)
Insert_before_equals(sorted, x) ==
    IF sorted = <<>> THEN <<x>>
    ELSE IF Head(sorted).similarity > x.similarity
         THEN <<Head(sorted)>> \o Insert_before_equals(Tail(sorted), x)
         ELSE <<x>> \o sorted

\* one result put into a list that is sorted by descending similarity,
\* after the results that are at least as similar
RECURSIVE Insert(_, _)
Insert(sorted, x) ==
    IF sorted = <<>> THEN <<x>>
    ELSE IF Head(sorted).similarity >= x.similarity
         THEN <<Head(sorted)>> \o Insert(Tail(sorted), x)
         ELSE <<x>> \o sorted

\* results.sort(key=lambda x: x.similarity, reverse=True): a stable sort
RECURSIVE SortBySimilarity(_)
SortBySimilarity(results) ==
    IF results = <<>> THEN <<>>
    ELSE Insert(SortBySimilarity(SubSeq(results, 1, Len(results) - 1)),
                results[Len(results)])

\* results[:k] for k >= 0
Truncate(results, k) ==
    IF Len(results) <= k THEN results ELSE SubSeq(results, 1, k)

\* some record's embedding has another length than the query's
AnyMismatch(query_embedding, records) ==
    \E i \in DOMAIN records : DimensionMismatch(query_embedding, records[i].embedding)

\* the callers: one searches, the other invalidates the cache and writes
RThreads == {"A", "B"}
Searchers == {"A"}
Maintainers == {"B"}

\* VectorRecord(chunk_id, ..., embedding)
VectorRecords ==
    { [chunk_id |-> "a", embedding |-> <<1, 0>>],
      [chunk_id |-> "b", embedding |-> <<3, 4>>],
      [chunk_id |-> "c", embedding |-> <<2, 0>>],
      [chunk_id |-> "e", embedding |-> <<1>>] }

\* the sequences of up to n different records
RECURSIVE RecordLists(_)
RecordLists(n) ==
    IF n = 0 THEN { <<>> }
    ELSE LET shorter == RecordLists(n - 1)
             longer == { Append(l, r) : l \in shorter, r \in VectorRecords }
         IN  shorter \cup
             { l \in longer : \A i, j \in DOMAIN l : i < j => l[i] # l[j] }

Corpora == RecordLists(MaxCorpusSize)

\* what the embedding service returns, and the embeddings callers pass
QueryEmbeddings == { <<1, 0>>, <<3, 4>> }
Queries == {"", "q"}
TopKs == {Absent} \cup 0..MaxTopK
MinSimilarities == {Absent, 0, 700, 1100}

NoCache == [loaded |-> FALSE, records |-> <<>>]

\* the locals of a search, and what it returned or raised
NoSearch ==
    [op |-> None, query |-> None, query_embedding |-> <<>>, top_k |-> Absent,
     min_similarity |-> Absent, k |-> Absent, min_sim |-> Absent,
     snapshots |-> {}, loads |-> 0, embeds |-> 0, raised |-> None,
     iterated |-> <<>>,
     filtered |-> <<>>,
     results |-> <<>>, call |-> 0]

\* a test for None only: `if self._vectors_cache is None`
CacheIsNone(cache) == ~cache.loaded

\* `not self._vectors_cache`: None or an empty list
CacheIsFalsy(cache) == ~cache.loaded \/ cache.records = <<>>

\* the cache is loaded whenever it holds no record
NeedsLoad_when_falsy(cache, force_reload) == CacheIsFalsy(cache) \/ force_reload

\* `if self._vectors_cache is None or force_reload`
NeedsLoad(cache, force_reload) == ~cache.loaded \/ force_reload

\* Retriever(top_k, min_similarity) over a vector store that holds c
InitRetriever(c, top_k, min_similarity) ==
    /\ corpus = c
    /\ vectors_cache = NoCache
    /\ self_top_k = PyOr(top_k, DefaultTopK)
    /\ self_min_similarity = PyOr(min_similarity, DefaultMinSimilarity)
    /\ rpc = [th \in RThreads |-> "idle"]
    /\ rloc = [th \in RThreads |-> NoSearch]
    /\ rret = [th \in RThreads |-> NoSearch]
    /\ rops = 0
    /\ embed_calls = 0

RetrieverFrame ==
    UNCHANGED <<chatVars, storeVars, dbret, self_top_k, self_min_similarity, s3Vars,
                embedVars, pret>>

RCall(th) ==
    /\ rpc[th] = "idle"
    /\ rops < MaxRetrieverOps
    /\ rops' = rops + 1

\* a search ends: it returns results or raises
Return(th, loc) ==
    /\ rret' = [rret EXCEPT ![th] = loc]
    /\ rloc' = [rloc EXCEPT ![th] = NoSearch]
    /\ rpc' = [rpc EXCEPT ![th] = "idle"]

\* the searches under way learn of a corpus that was loaded in full
Seen(locs, records) ==
    [th \in RThreads |->
        IF locs[th].op = None THEN locs[th]
        ELSE [locs[th] EXCEPT !.snapshots = @ \cup {records}]]

\* search / search_by_embedding up to and with self.load_vectors();
\* load_all_vectors may raise S3Error
search_begin(th, op, query, query_embedding, top_k, min_similarity) ==
    LET loc == [NoSearch EXCEPT
                   !.op = op, !.query = query, !.query_embedding = query_embedding,
                   !.top_k = top_k, !.min_similarity = min_similarity,
                   !.k = PyOr(top_k, self_top_k),
                   !.min_sim = PyOr(min_similarity, self_min_similarity),
                   !.snapshots = IF vectors_cache.loaded
                                 THEN {vectors_cache.records} ELSE {},
                   !.call = rret[th].call + 1]
    IN
    /\ rpc[th] = "idle"
    /\ RetrieverFrame
    /\ UNCHANGED <<corpus, embed_calls, rops>>
    /\ IF ~NeedsLoad(vectors_cache, FALSE)
       THEN /\ rloc' = [rloc EXCEPT ![th] = loc]
            /\ rpc' = [rpc EXCEPT ![th] = "check"]
            /\ UNCHANGED <<vectors_cache, rret>>
       ELSE \/ /\ vectors_cache' = [loaded |-> TRUE, records |-> corpus]
               /\ rloc' = Seen([rloc EXCEPT ![th] = [loc EXCEPT !.loads = 1]], corpus)
               /\ rpc' = [rpc EXCEPT ![th] = "check"]
               /\ UNCHANGED rret
            \/ /\ Return(th, [loc EXCEPT !.loads = 1, !.raised = "S3Error"])
               /\ UNCHANGED vectors_cache

\* `if not self._vectors_cache: return []`; search then calls embed_text,
\* which raises EmbeddingError for an empty query
search_check(th) ==
    /\ rpc[th] = "check"
    /\ RetrieverFrame
    /\ UNCHANGED <<corpus, vectors_cache, rops>>
    /\ IF CacheIsFalsy(vectors_cache)
       THEN /\ Return(th, rloc[th])
            /\ UNCHANGED embed_calls
       ELSE IF rloc[th].op = "search_by_embedding"
       THEN /\ rpc' = [rpc EXCEPT ![th] = "loop"]
            /\ UNCHANGED <<rloc, rret, embed_calls>>
       ELSE /\ embed_calls' = embed_calls + 1
            /\ IF rloc[th].query = ""
               THEN Return(th, [rloc[th] EXCEPT !.embeds = 1, !.raised = "EmbeddingError"])
               ELSE \E e \in QueryEmbeddings :
                       /\ rloc' = [rloc EXCEPT ![th].embeds = 1,
                                                ![th].query_embedding = e]
                       /\ rpc' = [rpc EXCEPT ![th] = "loop"]
                       /\ UNCHANGED rret

\* `for record in self._vectors_cache:` reads the reference once more and
\* iterates over that list; then sort and results[:k]
search_loop(th) ==
    LET loc == rloc[th]
        records == vectors_cache.records
        filtered == SortBySimilarity(Filtered(loc.query_embedding, records, loc.min_sim))
    IN
    /\ rpc[th] = "loop"
    /\ RetrieverFrame
    /\ UNCHANGED <<corpus, vectors_cache, rops, embed_calls>>
    /\ IF ~vectors_cache.loaded
       THEN Return(th, [loc EXCEPT !.raised = "TypeError"])
       ELSE IF AnyMismatch(loc.query_embedding, records)
       THEN Return(th, [loc EXCEPT !.raised = "ValueError", !.iterated = records])
       ELSE Return(th, [loc EXCEPT !.iterated = records,
                                   !.filtered = filtered,
                                   !.results = Truncate(filtered, loc.k)])

\* clear_cache()
clear_cache(th) ==
    /\ RCall(th)
    /\ RetrieverFrame
    /\ vectors_cache' = NoCache
    /\ UNCHANGED <<corpus, rpc, rloc, rret, embed_calls>>

\* load_vectors(force_reload=True)
load_vectors_force(th) ==
    /\ RCall(th)
    /\ RetrieverFrame
    /\ UNCHANGED <<corpus, rpc, rret, embed_calls>>
    /\ \/ /\ vectors_cache' = [loaded |-> TRUE, records |-> corpus]
          /\ rloc' = Seen(rloc, corpus)
       \/ UNCHANGED <<vectors_cache, rloc>>

\* the vector store is written: documents are added or removed
s3_write(c) ==
    /\ rops < MaxRetrieverOps
    /\ rops' = rops + 1
    /\ c # corpus
    /\ corpus' = c
    /\ RetrieverFrame
    /\ UNCHANGED <<vectors_cache, rpc, rloc, rret, embed_calls>>

\* th has made fewer than limit searches
MaySearch(th, limit) == rret[th].call < limit

RetrieverNext ==
    \/ \E th \in Searchers, q \in Queries, k \in TopKs, m \in MinSimilarities :
          MaySearch(th, SearchesPerCaller) /\ search_begin(th, "search", q, <<>>, k, m)
    \/ \E th \in Searchers, e \in QueryEmbeddings, k \in TopKs, m \in MinSimilarities :
          /\ MaySearch(th, SearchesPerCaller)
          /\ search_begin(th, "search_by_embedding", "", e, k, m)
    \/ \E th \in Searchers : search_check(th)
    \/ \E th \in Searchers : search_loop(th)
    \/ \E th \in Maintainers : clear_cache(th)
    \/ \E th \in Maintainers : load_vectors_force(th)
    \/ \E c \in Corpora : s3_write(c)

\* one caller searches several times with the default top_k and
\* min_similarity while the other clears, reloads and writes
CacheNext ==
    \/ \E th \in Searchers :
          MaySearch(th, SearchesInSequence) /\ search_begin(th, "search", "q", <<>>, Absent, Absent)
    \/ \E th \in Searchers :
          /\ MaySearch(th, SearchesInSequence)
          /\ search_begin(th, "search_by_embedding", "", <<1, 0>>, Absent, Absent)
    \/ \E th \in Searchers : search_check(th)
    \/ \E th \in Searchers : search_loop(th)
    \/ \E th \in Maintainers : clear_cache(th)
    \/ \E th \in Maintainers : load_vectors_force(th)
    \/ \E c \in Corpora : s3_write(c)

(***************************************************************************)
(* S3VectorStore (rag/s3_vector_store.py).  A key is the sequence of the   *)
(* pieces it is formatted from; the calls of one store run one at a time.  *)
(***************************************************************************)
\* self.vector_prefix
vector_prefix == "vectors/"

\* INDEX_FILE = "index.json"
INDEX_FILE == <<"index", ".json">>

\* str.endswith
endswith(key, suffix) ==
    /\ Len(key) >= Len(suffix)
    /\ SubSeq(key, Len(key) - Len(suffix) + 1, Len(key)) = suffix

\* f"{self.vector_prefix}{chunk_id}.json"
_get_vector_key(chunk_id) == <<vector_prefix>> \o chunk_id \o <<".json">>

\* f"{self.vector_prefix}{self.INDEX_FILE}"
_get_index_key == <<vector_prefix>> \o INDEX_FILE

\* the chunks that are saved: chunk ids "c1", "c2" and "xindex"
StoreChunks ==
    { [chunk_id |-> <<"c1">>, document_id |-> "d1", content |-> "t1"],
      [chunk_id |-> <<"c2">>, document_id |-> "d1", content |-> "t2"],
      [chunk_id |-> <<"x", "index">>, document_id |-> "d2", content |-> "t3"] }

ChunkIdsOf(chunks) == { c.chunk_id : c \in chunks }

\* the order in which list_objects_v2 returns the keys (by their bytes)
ListingOrder ==
    << _get_vector_key(<<"c1">>), _get_vector_key(<<"c2">>), _get_index_key,
       _get_vector_key(<<"x", "index">>) >>

\* chunks_with_embeddings: up to n different chunks in some order
RECURSIVE Batches(_)
Batches(n) ==
    IF n = 0 THEN { <<>> }
    ELSE LET shorter == Batches(n - 1)
             longer == { Append(b, c) : b \in shorter, c \in StoreChunks }
         IN  shorter \cup
             { b \in longer : \A i, j \in DOMAIN b : i # j => b[i] # b[j] }

\* VectorIndex(records, document_count, chunk_count); records is given by its
\* chunk ids, the key of an id being _get_vector_key of it
VectorIndex(records, document_count, chunk_count) ==
    [exists |-> TRUE, records |-> records,
     document_count |-> document_count, chunk_count |-> chunk_count]

\* no index object in the bucket; self._index_cache = None
NoIndex == [exists |-> FALSE, records |-> {}, document_count |-> 0, chunk_count |-> 0]

NoS3Ret ==
    [op |-> "None", batch |-> <<>>, update_index |-> FALSE, chunk_id |-> <<>>,
     saved_keys |-> <<>>,
     raised |-> "None", deleted |-> FALSE, listing |-> "None", records |-> <<>>,
     skipped |-> {},
     index_before |-> NoIndex, cache_before |-> NoIndex, call |-> 0]

S3Ret(op) == [NoS3Ret EXCEPT !.op = op, !.call = s3ops + 1,
                             !.index_before = index_object,
                             !.cache_before = index_cache]

\* S3VectorStore() over a bucket that holds the objects and the index given
InitS3Store(objects, index) ==
    /\ vector_objects = objects
    /\ index_object = index
    /\ index_cache = NoIndex
    /\ s3ret = NoS3Ret
    /\ s3ops = 0

S3Frame == UNCHANGED <<chatVars, storeVars, dbret, retrieverVars, embedVars, pret>>

S3Call ==
    /\ s3ops < MaxS3Ops
    /\ s3ops' = s3ops + 1

\* load_index(): what it returns, what it leaves in the cache, and whether
\* the returned index is the cached object itself; get is how the get_object
\* of the index ends when the cache does not answer
load_index_result(get) ==
    IF index_cache.exists
    THEN [raised |-> "None", index |-> index_cache, cache |-> index_cache, cached |-> TRUE]
    ELSE IF get = "ClientError"
    THEN [raised |-> "S3Error", index |-> NoIndex, cache |-> index_cache, cached |-> FALSE]
    ELSE IF index_object.exists
    THEN [raised |-> "None", index |-> index_object, cache |-> index_object, cached |-> TRUE]
    ELSE [raised |-> "None", index |-> VectorIndex({}, 0, 0), cache |-> index_cache,
          cached |-> FALSE]

\* the objects after put_object of the records of chunks
PutVectors(objects, chunks) ==
    { o \in objects : o.chunk_id \notin ChunkIdsOf(chunks) } \cup chunks

\* the entries of seq at the positions in keep, in order
RECURSIVE Positions(_, _, _)
Positions(seq, keep, i) ==
    IF i > Len(seq) THEN <<>>
    ELSE (IF i \in keep THEN <<seq[i]>> ELSE <<>>) \o Positions(seq, keep, i + 1)

Range(seq) == { seq[i] : i \in DOMAIN seq }

\* the index after the loop and the statistics of _update_index
UpdatedIndex(index, chunks_with_embeddings) ==
    LET records == index.records \cup ChunkIdsOf(Range(chunks_with_embeddings))
        document_ids == { c.document_id : c \in Range(chunks_with_embeddings) }
    IN  VectorIndex(records, Cardinality(document_ids), Cardinality(records))

\* save_vectors(chunks_with_embeddings, update_index): put_object fails for
\* the chunks at the positions in fails; get and put are how the get_object
\* and the put_object of the index end
save_vectors(chunks_with_embeddings, update_index, fails, get, put) ==
    LET saved == Positions(chunks_with_embeddings,
                           DOMAIN chunks_with_embeddings \ fails, 1)
        saved_keys == [i \in DOMAIN saved |-> _get_vector_key(saved[i].chunk_id)]
        loaded == load_index_result(get)
        index == UpdatedIndex(loaded.index, chunks_with_embeddings)
        r == [S3Ret("save_vectors") EXCEPT !.batch = chunks_with_embeddings,
                                           !.update_index = update_index]
    IN  /\ S3Call
        /\ vector_objects' = PutVectors(vector_objects, Range(saved))
        /\ IF ~(update_index /\ saved_keys # <<>>)
           THEN /\ get = "ok" /\ put = "ok"
                /\ s3ret' = [r EXCEPT !.saved_keys = saved_keys]
                /\ UNCHANGED <<index_object, index_cache>>
           ELSE IF loaded.raised # "None"
           THEN /\ put = "ok"
                /\ s3ret' = [r EXCEPT !.raised = loaded.raised]
                /\ UNCHANGED <<index_object, index_cache>>
           ELSE IF put = "ClientError"
           THEN /\ s3ret' = [r EXCEPT !.raised = "S3Error"]
                /\ index_cache' = IF loaded.cached THEN index ELSE loaded.cache
                /\ UNCHANGED index_object
           ELSE /\ s3ret' = [r EXCEPT !.saved_keys = saved_keys]
                /\ index_object' = index
                /\ index_cache' = index
        /\ S3Frame

\* the record deleted, chunk_count left as it was
IndexWithout_stale_count(index, chunk_id) ==
    VectorIndex(index.records \ {chunk_id}, index.document_count, index.chunk_count)

\* the index after `del index.records[chunk_id]` and the new chunk_count
IndexWithout(index, chunk_id) ==
    LET records == index.records \ {chunk_id}
    IN  VectorIndex(records, index.document_count, Cardinality(records))

\* delete_vector(chunk_id); del is how delete_object ends
delete_vector(chunk_id, del, get, put) ==
    LET loaded == load_index_result(get)
        index == IndexWithout(loaded.index, chunk_id)
        r == [S3Ret("delete_vector") EXCEPT !.chunk_id = chunk_id]
    IN  /\ S3Call
        /\ IF del = "ClientError"
           THEN /\ get = "ok" /\ put = "ok"
                /\ s3ret' = r
                /\ UNCHANGED <<vector_objects, index_object, index_cache>>
           ELSE /\ vector_objects' = { o \in vector_objects : o.chunk_id # chunk_id }
                /\ IF loaded.raised # "None"
                   THEN /\ put = "ok"
                        /\ s3ret' = [r EXCEPT !.raised = loaded.raised]
                        /\ UNCHANGED <<index_object, index_cache>>
                   ELSE IF chunk_id \notin loaded.index.records
                   THEN /\ put = "ok"
                        /\ s3ret' = [r EXCEPT !.deleted = TRUE]
                        /\ index_cache' = loaded.cache
                        /\ UNCHANGED index_object
                   ELSE IF put = "ClientError"
                   THEN /\ s3ret' = r
                        /\ index_cache' = IF loaded.cached THEN index ELSE loaded.cache
                        /\ UNCHANGED index_object
                   ELSE /\ s3ret' = [r EXCEPT !.deleted = TRUE]
                        /\ index_object' = index
                        /\ index_cache' = index
        /\ S3Frame

\* the keys list_objects_v2 returns: every object under the prefix
Listing ==
    SelectSeq(ListingOrder,
              LAMBDA key : \/ \E o \in vector_objects : _get_vector_key(o.chunk_id) = key
                           \/ index_object.exists /\ key = _get_index_key)

ObjectAt(key) == CHOOSE o \in vector_objects : _get_vector_key(o.chunk_id) = key

\* the scan gives up at the first object it cannot read
load_all_vectors_result_abort(list, unreadable) ==
    LET scanned == SelectSeq(Listing,
                       LAMBDA key : /\ ~endswith(key, INDEX_FILE)
                                    /\ endswith(key, <<".json">>))
    IN  IF list = "ClientError" \/ Range(scanned) \cap unreadable # {}
        THEN [raised |-> "S3Error", records |-> <<>>]
        ELSE [raised |-> "None",
              records |-> [i \in DOMAIN scanned |-> ObjectAt(scanned[i])]]

\* what load_all_vectors returns or raises: list is how the listing ends; the
\* get_object or the parse of the objects at the keys in unreadable fails
load_all_vectors_result(list, unreadable) ==
    LET scanned == SelectSeq(Listing,
                       LAMBDA key : /\ ~endswith(key, INDEX_FILE)
                                    /\ endswith(key, <<".json">>)
                                    /\ key \notin unreadable)
    IN  IF list = "ClientError"
        THEN [raised |-> "S3Error", records |-> <<>>]
        ELSE [raised |-> "None",
              records |-> [i \in DOMAIN scanned |-> ObjectAt(scanned[i])]]

\* load_all_vectors()
load_all_vectors(list, unreadable) ==
    LET result == load_all_vectors_result(list, unreadable)
    IN  /\ S3Call
        /\ unreadable \subseteq Range(Listing)
        /\ s3ret' = [S3Ret("load_all_vectors") EXCEPT !.listing = list,
                                                      !.skipped = unreadable,
                                                      !.raised = result.raised,
                                                      !.records = result.records]
        /\ UNCHANGED <<vector_objects, index_object, index_cache>>
        /\ S3Frame

\* load_index()
load_index(get) ==
    LET loaded == load_index_result(get)
    IN  /\ S3Call
        /\ get = "ClientError" => ~index_cache.exists
        /\ index_cache' = loaded.cache
        /\ s3ret' = [S3Ret("load_index") EXCEPT !.raised = loaded.raised]
        /\ UNCHANGED <<vector_objects, index_object>>
        /\ S3Frame

\* S3VectorStore.clear_cache()
store_clear_cache ==
    /\ S3Call
    /\ index_cache' = NoIndex
    /\ s3ret' = S3Ret("clear_cache")
    /\ UNCHANGED <<vector_objects, index_object>>
    /\ S3Frame

Outcomes == {"ok", "ClientError"}

S3Next ==
    \/ \E b \in Batches(MaxBatch), u \in BOOLEAN, get \in Outcomes, put \in Outcomes :
         \E fails \in SUBSET DOMAIN b : save_vectors(b, u, fails, get, put)
    \/ \E c \in StoreChunks, del \in Outcomes, get \in Outcomes, put \in Outcomes :
         delete_vector(c.chunk_id, del, get, put)
    \/ \E list \in Outcomes, unreadable \in SUBSET Range(ListingOrder) :
         load_all_vectors(list, unreadable)
    \/ \E get \in Outcomes : load_index(get)
    \/ store_clear_cache

(***************************************************************************)
(* EmbeddingsGenerator.embed_text (rag/embeddings.py).  Times are in the   *)
(* unit of retry_delay.                                                    *)
(***************************************************************************)
\* the texts embedded: empty, blank, and one with content
EmbedTexts == {"", " ", "q"}

\* how one invoke_model call ends: an embedding, a response without one, a
\* ClientError with its error code, any other exception
InvokeOutcomes ==
    {"ok", "no_embedding", "ThrottlingException", "ServiceUnavailableException",
     "ValidationException", "Exception"}

ClientErrorCodes ==
    {"ThrottlingException", "ServiceUnavailableException", "ValidationException"}

\* every ClientError is retried
RetryableCodes_any == ClientErrorCodes

\* error_code in ['ThrottlingException', 'ServiceUnavailableException']
RetryableCodes == {"ThrottlingException", "ServiceUnavailableException"}

\* 2 ** attempt
RECURSIVE Pow2(_)
Pow2(n) == IF n = 0 THEN 1 ELSE 2 * Pow2(n - 1)

\* wait_time = self.retry_delay * (2 ** attempt)
wait_time(retry_delay, attempt) == retry_delay * Pow2(attempt)

NoEmbed ==
    [text |-> "None", attempt |-> 0, outcomes |-> <<>>, sleeps |-> <<>>,
     raised |-> "None", message |-> "None", returned |-> FALSE]

\* EmbeddingsGenerator(max_retries, retry_delay)
InitEmbed(max_retries, retry_delay) ==
    /\ self_max_retries = max_retries
    /\ self_retry_delay = retry_delay
    /\ epc = "idle"
    /\ eloc = NoEmbed

EmbedFrame ==
    UNCHANGED <<chatVars, storeVars, dbret, retrieverVars, s3Vars, pret,
                self_max_retries, self_retry_delay>>

\* text.strip() is empty
IsBlank(text) == text \in {"", " "}

\* embed_text(text) up to the first invoke_model call
embed_text(text) ==
    /\ epc \in {"idle", "done"}
    /\ IF IsBlank(text)
       THEN /\ epc' = "done"
            /\ eloc' = [NoEmbed EXCEPT !.text = text, !.raised = "EmbeddingError",
                                        !.message = "empty text"]
       ELSE IF self_max_retries = 0
       THEN /\ epc' = "done"
            /\ eloc' = [NoEmbed EXCEPT !.text = text, !.raised = "EmbeddingError",
                                        !.message = "max retries exceeded"]
       ELSE /\ epc' = "invoke"
            /\ eloc' = [NoEmbed EXCEPT !.text = text]
    /\ EmbedFrame

\* one pass of the loop body: invoke_model and the handling of how it ended
invoke_model(outcome) ==
    LET loc == [eloc EXCEPT !.outcomes = Append(@, outcome)]
    IN  /\ epc = "invoke"
        /\ IF outcome = "ok"
           THEN /\ epc' = "done"
                /\ eloc' = [loc EXCEPT !.returned = TRUE]
           ELSE IF outcome \in RetryableCodes /\ eloc.attempt < self_max_retries - 1
           THEN /\ epc' = "sleep"
                /\ eloc' = loc
           ELSE /\ epc' = "done"
                /\ eloc' = [loc EXCEPT !.raised = "EmbeddingError", !.message = outcome]
        /\ EmbedFrame

\* time.sleep(wait_time); continue
embed_sleep ==
    /\ epc = "sleep"
    /\ epc' = "invoke"
    /\ eloc' = [eloc EXCEPT !.sleeps = Append(@, wait_time(self_retry_delay, eloc.attempt)),
                            !.attempt = @ + 1]
    /\ EmbedFrame

EmbedNext ==
    \/ \E text \in EmbedTexts : embed_text(text)
    \/ \E outcome \in InvokeOutcomes : invoke_model(outcome)
    \/ embed_sleep

(***************************************************************************)
(* build_rag_prompt (rag/chain.py) and cosine_similarity                   *)
(* (rag/retriever.py) called on their own.  A prompt is the sequence of    *)
(* the parts that are joined; a message's content is its number.           *)
(***************************************************************************)
\* one entry of prompt_parts
Part(kind, who, n) == [kind |-> kind, who |-> who, n |-> n]

\* a conversation of n messages, the roles taking turns from first_role on
Conversation(n, first_role) ==
    [i \in 1..n |->
        [role |-> IF i % 2 = 1 THEN first_role
                  ELSE IF first_role = "user" THEN "assistant" ELSE "user",
         content |-> i]]

\* conversation_history: None, or a list of up to MaxHistory messages
Histories ==
    { [given |-> FALSE, messages |-> <<>>] } \cup
    { [given |-> TRUE, messages |-> Conversation(n, r)] :
          n \in 0..MaxHistory, r \in {"user", "assistant"} }

\* context_chunks: the search results, none or some
ContextChunks == { <<>>, <<"a">>, <<"a", "b">> }

\* the first entries of the history instead of the last
recent_history_oldest(conversation_history) ==
    SubSeq(conversation_history, 1,
           IF Len(conversation_history) < HistoryWindow
           THEN Len(conversation_history) ELSE HistoryWindow)

\* conversation_history[-6:]
recent_history(conversation_history) ==
    SubSeq(conversation_history,
           IF Len(conversation_history) < HistoryWindow
           THEN 1 ELSE Len(conversation_history) - HistoryWindow + 1,
           Len(conversation_history))

\* build_rag_prompt(query, context_chunks, conversation_history, system_prompt)
build_rag_prompt(query, context_chunks, conversation_history, system_prompt) ==
    LET system == <<Part("system", IF system_prompt = None THEN "default" ELSE system_prompt, 0)>>
        documents ==
            IF context_chunks # <<>>
            THEN <<Part("documents_header", "", 0)>> \o
                 [i \in DOMAIN context_chunks |-> Part("document", context_chunks[i], i)]
            ELSE <<Part("no_documents", "", 0)>>
        recent == recent_history(conversation_history.messages)
        earlier ==
            IF conversation_history.given /\ conversation_history.messages # <<>>
            THEN <<Part("history_header", "", 0)>> \o
                 [i \in DOMAIN recent |->
                     Part("history", IF recent[i].role = "user" THEN "user" ELSE "AI",
                          recent[i].content)]
            ELSE <<>>
    IN  system \o documents \o earlier \o
        <<Part("question", query, 0), Part("answer_header", "", 0)>>

\* what a call of cosine_similarity gives: a value in thousandths or an error
cosine_similarity_unguarded(vec1, vec2) ==
    IF Len(vec1) # Len(vec2) THEN [raised |-> "ValueError", value |-> 0]
    ELSE IF vec1 = <<>> \/ vec2 = <<>> THEN [raised |-> "None", value |-> 0]
    ELSE IF Sqrt(DotProduct(vec1, vec1)) * Sqrt(DotProduct(vec2, vec2)) = 0
    THEN [raised |-> "ZeroDivisionError", value |-> 0]
    ELSE [raised |-> "None", value |-> cosine_similarity(vec1, vec2)]

\* cosine_similarity(vec1, vec2) with the ValueError it raises
cosine_similarity_call(vec1, vec2) ==
    IF Len(vec1) # Len(vec2) THEN [raised |-> "ValueError", value |-> 0]
    ELSE IF vec1 = <<>> \/ vec2 = <<>> THEN [raised |-> "None", value |-> 0]
    ELSE IF Sqrt(DotProduct(vec1, vec1)) = 0 \/ Sqrt(DotProduct(vec2, vec2)) = 0
    THEN [raised |-> "None", value |-> 0]
    ELSE [raised |-> "None", value |-> (DotProduct(vec1, vec2) * Thousand)
                                          \div (Sqrt(DotProduct(vec1, vec1))
                                                  * Sqrt(DotProduct(vec2, vec2)))]

\* the vectors cosine_similarity is called with
Vectors == { <<>>, <<0>>, <<2>>, <<0, 0>>, <<1, 0>>, <<3, 4>>, <<0, 0, 0>> }

NoCall ==
    [op |-> "None", query |-> "None", context_chunks |-> <<>>,
     conversation_history |-> [given |-> FALSE, messages |-> <<>>],
     system_prompt |-> "None", prompt |-> <<>>,
     vec1 |-> <<>>, vec2 |-> <<>>, raised |-> "None", value |-> 0]

InitPure == pret = NoCall

PureFrame == UNCHANGED <<chatVars, storeVars, dbret, retrieverVars, s3Vars, embedVars>>

call_build_rag_prompt(query, context_chunks, conversation_history, system_prompt) ==
    /\ pret' = [NoCall EXCEPT
                   !.op = "build_rag_prompt", !.query = query,
                   !.context_chunks = context_chunks,
                   !.conversation_history = conversation_history,
                   !.system_prompt = system_prompt,
                   !.prompt = build_rag_prompt(query, context_chunks,
                                               conversation_history, system_prompt)]
    /\ PureFrame

call_cosine_similarity(vec1, vec2) ==
    LET result == cosine_similarity_call(vec1, vec2)
    IN  /\ pret' = [NoCall EXCEPT !.op = "cosine_similarity", !.vec1 = vec1, !.vec2 = vec2,
                                  !.raised = result.raised, !.value = result.value]
        /\ PureFrame

PureNext ==
    \/ \E chunks \in ContextChunks, h \in Histories, system \in {None, "custom"} :
          call_build_rag_prompt("q", chunks, h, system)
    \/ \E vec1 \in Vectors, vec2 \in Vectors : call_cosine_similarity(vec1, vec2)

StoreNext ==
    \/ \E th \in Threads, id \in StoreIds \cup {None} : create_session(th, id)
    \/ \E th \in Threads, id \in StoreIds : get_session(th, id)
    \/ \E th \in Threads, id \in StoreIds : get_or_create_session(th, id)
    \/ \E th \in Threads : get_or_create_session_create(th)
    \/ \E th \in Threads, id \in StoreIds, role \in StoreRoles : add_message(th, id, role)
    \/ \E th \in Threads, id \in StoreIds : clear_session(th, id)
    \/ \E th \in Threads, id \in StoreIds : store_delete_session(th, id)

ChatNext ==
    \/ \E auth \in SessionIds \cup {None} : Connect(TheSid, auth)
    \/ Disconnect(TheSid)
    \/ \E h \in Handlers, data \in Payloads : Receive(h, data)
    \/ \E h \in Handlers : Generate(h)
    \/ \E h \in Handlers : KbToken(h)
    \/ \E h \in Handlers : KbFinish(h)
    \/ \E h \in Handlers : DirectStart(h)
    \/ \E h \in Handlers : DirectStep(h)
    \/ \E h \in Handlers : EchoToken(h)
    \/ \E h \in Handlers : EchoFinish(h)
    \/ \E h \in Handlers, req \in HttpRequests : chat(h, req)

\* the client of one session sends chat_message events with a valid payload
\* and stays connected
ConcurrentNext ==
    \/ Connect(TheSid, "s1")
    \/ \E h \in Handlers : Receive(h, [sessionId |-> "s1", message |-> <<"a">>])
    \/ \E h \in Handlers : Generate(h)
    \/ \E h \in Handlers : KbToken(h)
    \/ \E h \in Handlers : KbFinish(h)
    \/ \E h \in Handlers : DirectStart(h)
    \/ \E h \in Handlers : DirectStep(h)
    \/ \E h \in Handlers : EchoToken(h)
    \/ \E h \in Handlers : EchoFinish(h)

vars == <<chatVars, storeVars, restVars>>

\* the chat handlers, one turn at a time; the ConversationStore as constructed
ChatInit ==
    /\ InitPure
    /\ InitEmbed(DefaultMaxRetries, DefaultRetryDelay)
    /\ InitS3Store({}, NoIndex)
    /\ InitChat({1})
    /\ InitRetriever(<<>>, Absent, Absent)
    /\ InitDb
    /\ InitStore(DefaultMaxSessions, DefaultMaxMessagesPerSession)

SpecChat == ChatInit /\ [][ChatNext]_vars

\* two chat_message handlers of one connection run at the same time
ConcurrentInit ==
    /\ InitPure
    /\ InitEmbed(DefaultMaxRetries, DefaultRetryDelay)
    /\ InitS3Store({}, NoIndex)
    /\ InitChat({1, 2})
    /\ InitRetriever(<<>>, Absent, Absent)
    /\ InitDb
    /\ InitStore(DefaultMaxSessions, DefaultMaxMessagesPerSession)

SpecConcurrentChat == ConcurrentInit /\ [][ConcurrentNext]_vars

\* a ConversationStore built with small limits and called from two threads
StoreInit ==
    /\ InitPure
    /\ InitEmbed(DefaultMaxRetries, DefaultRetryDelay)
    /\ InitS3Store({}, NoIndex)
    /\ InitDb
    /\ InitRetriever(<<>>, Absent, Absent)
    /\ InitChat({1})
    /\ \E ms \in 0..StoreSessionsBound, mm \in 0..StoreMessagesBound : InitStore(ms, mm)

SpecStore == StoreInit /\ [][StoreNext]_vars

\* the threads of a process call get_or_create_session for one session id
\* and append messages to that session, nothing else
GetOrCreateNext ==
    \/ \E th \in Threads : get_or_create_session(th, "s1")
    \/ \E th \in Threads : get_or_create_session_create(th)
    \/ \E th \in Threads, role \in StoreRoles : add_message(th, "s1", role)

SpecGetOrCreate == StoreInit /\ [][GetOrCreateNext]_vars


(***************************************************************************)
(* Properties of a chat turn.                                              *)
(***************************************************************************)
IsChatMessage(h) == turn[h].entry = "chat_message"

Entries(h, tier, what) ==
    { i \in DOMAIN tierlog[h] : tierlog[h][i].tier = tier /\ tierlog[h][i].what = what }

Has(h, tier, what) == Entries(h, tier, what) # {}

LastLog(h) == tierlog[h][Len(tierlog[h])]

Ended(h, tier, what) ==
    /\ pc[h] = "done"
    /\ tierlog[h] # <<>>
    /\ LastLog(h).tier = tier
    /\ LastLog(h).what = what

\* the stored assistant messages of the turn a handler is running
AssistantRows(h) ==
    SelectSeq(dbMessages, LAMBDA r : r.message_id = AiMessageId(h))

IsTerminal(e) == e.event \in {"chat_response_complete", "chat_error"}

Chunks(h) ==
    SelectSeq(emitted[h], LAMBDA e : e.event = "chat_response_chunk")

\* the answer trimmed and lower-cased begins with "sorry, i am unable"
RefusalAnswer(answer) == StartsWith(Lower(Strip(answer)), RefusalPrefix)

\* C1: in chat_message, when the Knowledge Base answer, trimmed and
\* lower-cased, begins with "sorry, i am unable", no stored assistant message
\* of the turn is that answer (as received or as streamed), and when the
\* direct tier then completes the turn the one stored assistant message is
\* the text the direct tier produced.
C1_RefusalFallsBackToDirect ==
    \A h \in Handlers : IsChatMessage(h) =>
        \A i \in Entries(h, "managed", "answered") :
            LET answer == tierlog[h][i].text
                rows == AssistantRows(h)
            IN  RefusalAnswer(answer) =>
                  /\ \A j \in DOMAIN rows :
                        /\ rows[j].content # answer
                        /\ rows[j].content # Concat(WordTokens(answer))
                  /\ Ended(h, "direct", "completed") =>
                        /\ Len(rows) = 1
                        /\ rows[1] = Row(AiMessageId(h), request[h].sessionId,
                                         "assistant", Concat(yielded[h]))

\* C1 witness: a refused Knowledge Base answer, then the direct tier streamed
\* text and completed the turn
C1_Witness ==
    \E h \in Handlers :
        /\ IsChatMessage(h)
        /\ Has(h, "managed", "refused")
        /\ Ended(h, "direct", "completed")
        /\ yielded[h] # <<>>
        /\ Len(AssistantRows(h)) = 1

\* the managed tier failed: the Knowledge Base call raised, or saving its
\* answer did
ManagedFailed(h) == Has(h, "managed", "failed") \/ Has(h, "managed", "save_failed")

\* the direct tier failed: an adapter error was raised in _send_bedrock_response
DirectFailed(h) ==
    \/ Has(h, "direct", "failed")
    \/ \E i \in Entries(h, "direct", "raised") : tierlog[h][i].info \in BedrockErrorClasses

\* C2: in chat_message, when the Knowledge Base call fails and the direct
\* tier fails with an adapter error of any kind, the echo tier runs, every
\* stored assistant message of the turn is the echo of the input, and when
\* the echo tier completes the turn exactly that message is stored.
C2_BothFailThenEcho ==
    \A h \in Handlers :
        (IsChatMessage(h) /\ ManagedFailed(h) /\ DirectFailed(h)) =>
            LET rows == AssistantRows(h)
                echo == Row(AiMessageId(h), request[h].sessionId, "assistant",
                            EchoContent(request[h].message))
            IN  /\ Has(h, "echo", "enter")
                /\ \A j \in DOMAIN rows : rows[j] = echo
                /\ Ended(h, "echo", "completed") => rows = <<echo>>
                /\ pc[h] = "done" /\ emitted[h][Len(emitted[h])].event = "chat_response_complete"
                      => rows = <<echo>>

\* C2 witness: Knowledge Base failed, the direct stream failed after it had
\* yielded text, the echo completed
C2_Witness ==
    \E h \in Handlers :
        /\ IsChatMessage(h)
        /\ Has(h, "managed", "failed")
        /\ Has(h, "direct", "failed")
        /\ \E i \in DOMAIN emitted[h] : emitted[h][i].tier = "direct"
        /\ Ended(h, "echo", "completed")
        /\ Len(AssistantRows(h)) = 1

\* what the tier that completed a turn produced
TierOutput(h, tier) ==
    IF tier = "echo" THEN EchoContent(request[h].message) ELSE Concat(yielded[h])

\* C3: every turn has at most one stored assistant message; a stored
\* assistant message of a chat_message turn exists only once a tier has
\* completed the turn, and its content is exactly what that tier produced in
\* the attempt that completed.
C3_OneTierPersisted ==
    /\ \A n \in 1..nturns :
          Len(SelectSeq(dbMessages, LAMBDA r : r.message_id = Uuid("ai-", n))) <= 1
    /\ \A h \in Handlers : IsChatMessage(h) =>
          LET rows == AssistantRows(h)
          IN  rows # <<>> =>
                /\ pc[h] = "done"
                /\ LastLog(h).what = "completed"
                /\ rows[1] = Row(AiMessageId(h), request[h].sessionId, "assistant",
                                 TierOutput(h, LastLog(h).tier))

\* C3 witness: the Knowledge Base refused after streaming, the direct tier
\* streamed and failed, the echo completed and is what is stored
C3_Witness ==
    \E h \in Handlers :
        /\ IsChatMessage(h)
        /\ Has(h, "managed", "refused")
        /\ \E i \in DOMAIN emitted[h] : emitted[h][i].tier = "direct"
        /\ Ended(h, "echo", "completed")
        /\ AssistantRows(h) # <<>>

\* C4: a chat_message turn that has ended has sent exactly one terminal
\* event (chat_response_complete or chat_error), as its last event; a turn
\* that has not ended has sent none.
C4_OneTerminalEvent ==
    \A h \in Handlers : IsChatMessage(h) =>
        LET terminals == { i \in DOMAIN emitted[h] : IsTerminal(emitted[h][i]) }
        IN  IF pc[h] = "done"
            THEN terminals = {Len(emitted[h])}
            ELSE terminals = {}

\* C4 witness: a turn that went through all three tiers, sent chunks of each
\* and ended with chat_error
C4_Witness ==
    \E h \in Handlers :
        /\ IsChatMessage(h)
        /\ pc[h] = "done"
        /\ Has(h, "managed", "refused")
        /\ Has(h, "echo", "save_failed")
        /\ Len(Chunks(h)) > 4
        /\ emitted[h][Len(emitted[h])].event = "chat_error"

TierRank(tier) ==
    CASE tier = "managed" -> 1 [] tier = "direct" -> 2 [] tier = "echo" -> 3

\* the tiers a turn entered, in order
Entered(h) ==
    LET e == SelectSeq(tierlog[h], LAMBDA x : x.what = "enter")
    IN  [i \in DOMAIN e |-> e[i].tier]

\* C5: the tiers of a chat_message turn are entered in the order managed,
\* direct, echo, each at most once and none after a later one; the managed
\* tier is entered if and only if a Knowledge Base client is available.
C5_TiersInOrderOnce ==
    \A h \in Handlers : IsChatMessage(h) =>
        /\ \A i, j \in DOMAIN Entered(h) :
              i < j => TierRank(Entered(h)[i]) < TierRank(Entered(h)[j])
        /\ Entered(h) # <<>> => (Entered(h)[1] = "managed" <=> kb_client # None)

\* the exceptions of the Knowledge Base and Bedrock adapters
AdapterErrors == {"KbError"} \cup BedrockErrorClasses

\* C6: no error reported to the client, by chat_message or by POST /chat,
\* carries a failure of the managed or direct adapter.
C6_AdapterFailureNeverReported ==
    \A h \in Handlers : \A i \in DOMAIN emitted[h] :
        emitted[h][i].event \in {"chat_error", "http_500_chat_error", "http_500_unhandled"}
            => emitted[h][i].exc \notin AdapterErrors

\* C7: in a chat_message turn and in a POST /chat request no tier is entered
\* before the user message is saved, and once saved the user message stays in
\* the stored history of its session through every later step of the turn.
C7_UserMessageSavedFirstAndKept ==
    \A h \in Handlers : turn[h].n > 0 =>
        /\ (\E i \in DOMAIN tierlog[h] : tierlog[h][i].tier # "user")
              => tierlog[h][1] = Log("user", "saved", None)
        /\ Has(h, "user", "saved") =>
              \E k \in DOMAIN SessionRows(dbMessages, request[h].sessionId) :
                  SessionRows(dbMessages, request[h].sessionId)[k] =
                      Row(UserMessageId(h), request[h].sessionId, "user",
                          request[h].message)

\* C7 witness: the client went away while chunks were being streamed and the
\* turn ended afterwards
C7_Witness ==
    \E h \in Handlers :
        /\ IsChatMessage(h)
        /\ pc[h] = "done"
        /\ closed # {}
        /\ Chunks(h) # <<>>
        /\ emitted[h][Len(emitted[h])].session_id = "unknown"
        /\ Has(h, "user", "saved")

\* C8: in chat_message, once saving the Knowledge Base answer has failed, no
\* other tier is entered.
C8_SaveFailureStartsNoTier ==
    \A h \in Handlers : IsChatMessage(h) =>
        \A i \in Entries(h, "managed", "save_failed") :
            \A j \in DOMAIN tierlog[h] : j > i => tierlog[h][j].tier = "managed"

(***************************************************************************)
(* Properties of the ConversationStore.                                    *)
(***************************************************************************)
\* C9: add_message for a session id that is not in the store goes on: its
\* call of create_session can take the lock, after which the session is
\* created and the message appended and returned.
C9_AddMessageCreatesSession ==
    \A th \in Threads :
        tpc[th] = "add_message:create_session" => ENABLED add_message_create(th)

\* C10: the number of stored sessions never exceeds max_sessions.
C10_SessionCountBounded == Len(sessions) <= max_sessions

\* C10 witness: a create_session has evicted and the store is full, with the
\* other thread between the two halves of get_or_create_session
C10_Witness ==
    /\ last_evicted # <<>>
    /\ max_sessions >= 1
    /\ Len(sessions) = max_sessions
    /\ \E th \in Threads : tpc[th] = "get_or_create_session:create_session"

\* the two stores, called directly: an empty database and a store that
\* keeps up to StoreSessionsBound sessions
DbInit ==
    /\ InitPure
    /\ InitEmbed(DefaultMaxRetries, DefaultRetryDelay)
    /\ InitS3Store({}, NoIndex)
    /\ InitChat({1})
    /\ InitRetriever(<<>>, Absent, Absent)
    /\ InitDb
    /\ \E ms \in 0..StoreSessionsBound : InitStore(ms, DefaultMaxMessagesPerSession)

SpecDb == DbInit /\ [][DbNext]_vars

\* a Retriever over a small corpus, called from two threads
RetrieverInit ==
    /\ InitPure
    /\ InitEmbed(DefaultMaxRetries, DefaultRetryDelay)
    /\ InitS3Store({}, NoIndex)
    /\ InitChat({1})
    /\ InitDb
    /\ InitStore(DefaultMaxSessions, DefaultMaxMessagesPerSession)
    /\ \E c \in Corpora, ctor \in {<<Absent, Absent>>, <<1, 900>>} :
          InitRetriever(c, ctor[1], ctor[2])

SpecRetriever == RetrieverInit /\ [][RetrieverNext]_vars

SpecCache == RetrieverInit /\ [][CacheNext]_vars

\* an S3VectorStore over a bucket that is empty or holds what an earlier
\* save_vectors left there
S3Init ==
    /\ InitPure
    /\ InitEmbed(DefaultMaxRetries, DefaultRetryDelay)
    /\ InitChat({1})
    /\ InitDb
    /\ InitStore(DefaultMaxSessions, DefaultMaxMessagesPerSession)
    /\ InitRetriever(<<>>, Absent, Absent)
    /\ \E chunks \in SUBSET StoreChunks :
          InitS3Store(chunks,
                      IF chunks = {} THEN NoIndex
                      ELSE VectorIndex(ChunkIdsOf(chunks),
                                       Cardinality({ c.document_id : c \in chunks }),
                                       Cardinality(chunks)))

SpecS3 == S3Init /\ [][S3Next]_vars

\* an EmbeddingsGenerator built with small max_retries and retry_delay
EmbedInit ==
    /\ InitPure
    /\ InitChat({1})
    /\ InitDb
    /\ InitStore(DefaultMaxSessions, DefaultMaxMessagesPerSession)
    /\ InitRetriever(<<>>, Absent, Absent)
    /\ InitS3Store({}, NoIndex)
    /\ \E max_retries \in 0..MaxRetriesBound, retry_delay \in 1..RetryDelayBound :
          InitEmbed(max_retries, retry_delay)

SpecEmbed == EmbedInit /\ [][EmbedNext]_vars

\* no handler runs; the functions are called with arguments of every kind
PureInit ==
    /\ InitChat({1})
    /\ InitDb
    /\ InitStore(DefaultMaxSessions, DefaultMaxMessagesPerSession)
    /\ InitRetriever(<<>>, Absent, Absent)
    /\ InitS3Store({}, NoIndex)
    /\ InitEmbed(DefaultMaxRetries, DefaultRetryDelay)
    /\ InitPure

SpecPure == PureInit /\ [][PureNext]_vars

\* the stored session that was used least recently
LeastRecentlyUsed(ss) ==
    CHOOSE id \in SessionIdsOf(ss) :
        \A other \in SessionIdsOf(ss) : last_used[id] <= last_used[other]

\* C11: with max_sessions >= 1, a step that stores a session under a new id
\* while the store is full removes exactly the session that was used least
\* recently (by create_session, get_session or add_message) and keeps the new
\* session and every other one.
C11_EvictsLeastRecentlyUsed ==
    [][ \A id \in AllStoreIds :
          (/\ max_sessions >= 1
           /\ ~HasSession(sessions, id)
           /\ HasSession(sessions', id)
           /\ Len(sessions) + 1 > max_sessions)
          => /\ SessionIdsOf(sessions') =
                  (SessionIdsOf(sessions) \ {LeastRecentlyUsed(sessions)}) \cup {id}
             /\ last_evicted' = <<LeastRecentlyUsed(sessions)>> ]_vars

\* C11 witness: a create_session has evicted a session that was not the one
\* stored first, the older one having been used again since
C11_Witness ==
    /\ max_sessions = 2
    /\ Len(last_evicted) = 1
    /\ Len(sessions) = 2
    /\ \E i \in DOMAIN sessions :
          /\ last_used[sessions[i].id] > 0
          /\ sessions[i].id = "s1"
          /\ last_evicted[1] = "s2"
          /\ \E th \in Threads : ret[th].op = "get_session" /\ ret[th].session_id = "s1"

\* the last n elements of a sequence
LastN(seq, n) ==
    IF Len(seq) <= n THEN seq ELSE SubSeq(seq, Len(seq) - n + 1, Len(seq))

MessagesOf(ss, id) == ss[IndexOf(ss, id)].messages

\* C12: a session never holds more than max_messages_per_session messages,
\* and an add_message on an existing session leaves it with the most recent
\* max_messages_per_session of its messages and the new one, in the order
\* they were added.
C12_KeepsMostRecentMessages ==
    [][ /\ \A i \in DOMAIN sessions' :
              Len(sessions'[i].messages) <= max_messages_per_session
        /\ \A th \in Threads :
              (/\ nops' = nops + 1
               /\ ret'[th] # ret[th]
               /\ ret'[th].op = "add_message")
              => LET id == ret'[th].session_id
                 IN  /\ HasSession(sessions, id)
                     /\ HasSession(sessions', id)
                     /\ MessagesOf(sessions', id) =
                          LastN(Append(MessagesOf(sessions, id), ret'[th].message),
                                max_messages_per_session) ]_vars

\* C12 witness: two messages were added to one session that keeps one; it
\* holds the later one
C12_Witness ==
    /\ max_messages_per_session = 1
    /\ ret["T1"].op = "add_message"
    /\ ret["T2"].op = "add_message"
    /\ ret["T1"].session_id = ret["T2"].session_id
    /\ HasSession(sessions, ret["T1"].session_id)
    /\ MessagesOf(sessions, ret["T1"].session_id) = <<ret["T2"].message>>
    /\ ret["T1"].message # ret["T2"].message

(***************************************************************************)
(* Properties of the durable store.                                        *)
(***************************************************************************)
\* C13: deleting a session id that is not stored returns False (DELETE
\* /chat/{session_id} answers "not found") and leaves all sessions and
\* messages as they were, in the durable store and in the ConversationStore.
C13_DeleteMissingSession ==
    [][ /\ (/\ dbret' # dbret
            /\ dbret'.op = "delete_session"
            /\ dbret'.session_id \notin dbSessions)
           => /\ dbret'.ok = FALSE
              /\ dbret'.message = "not found"
              /\ dbMessages' = dbMessages
              /\ dbSessions' = dbSessions
        /\ \A th \in Threads :
              (/\ ret'[th] # ret[th]
               /\ ret'[th].op = "delete_session"
               /\ ~HasSession(sessions, ret'[th].session_id))
              => /\ ret'[th].ok = FALSE
                 /\ sessions' = sessions ]_vars

\* C13 witness: both stores hold something and each was asked to delete a
\* session it does not hold
C13_Witness ==
    /\ dbret.op = "delete_session"
    /\ dbret.message = "not found"
    /\ dbMessages # <<>>
    /\ sessions # <<>>
    /\ \E th \in Threads : ret[th].op = "delete_session" /\ ~ret[th].ok

\* the stored rows with a message_id
RowsWithId(rows, message_id) ==
    SelectSeq(rows, LAMBDA r : r.message_id = message_id)

\* C14: there is at most one stored message per message_id; a save_message
\* that returns leaves, under its message_id, exactly the row it was given,
\* and the rows of the other message ids as they were; a save_message that
\* raises leaves the table as it was.
C14_SaveOverwritesById ==
    [][ /\ \A m \in DbMessageIds : Len(RowsWithId(dbMessages', m)) <= 1
        /\ (dbret' # dbret /\ dbret'.op = "save_message")
           => IF dbret'.ok
              THEN /\ RowsWithId(dbMessages', dbret'.row.message_id) = <<dbret'.row>>
                   /\ \A m \in DbMessageIds \ {dbret'.row.message_id} :
                         RowsWithId(dbMessages', m) = RowsWithId(dbMessages, m)
              ELSE dbMessages' = dbMessages ]_vars

\* C14 witness: a message id was saved a second time, with another content
\* and in another session, and the table holds the second version only
C14_Witness ==
    /\ dbret.op = "save_message"
    /\ dbret.ok
    /\ dbret.call = 3
    /\ dbret.row = Row("m1", "s2", "user", <<"y">>)
    /\ Len(dbMessages) = 2
    /\ dbMessages[2] = dbret.row
    /\ dbMessages[1].message_id = "m2"
    /\ dbMessages[1].session_id = "s1"

\* the position of a message id in the history of a session, 0 when absent
PositionIn(rows, session_id, message_id) ==
    LET sel == SessionRows(rows, session_id)
        at == { i \in DOMAIN sel : sel[i].message_id = message_id }
    IN  IF at = {} THEN 0 ELSE CHOOSE i \in at : TRUE

\* C15: two messages of a session keep their order in the session's history
\* under every later save_message, a re-save of one of them included.
C15_HistoryKeepsAppendOrder ==
    [][ (dbret' # dbret /\ dbret'.op = "save_message") =>
          \A id \in DbSessionIds : \A m1, m2 \in DbMessageIds :
             (/\ PositionIn(dbMessages, id, m1) > 0
              /\ PositionIn(dbMessages, id, m1) < PositionIn(dbMessages, id, m2)
              /\ PositionIn(dbMessages', id, m1) > 0
              /\ PositionIn(dbMessages', id, m2) > 0)
             => PositionIn(dbMessages', id, m1) < PositionIn(dbMessages', id, m2) ]_vars

(***************************************************************************)
(* Properties of the Retriever.                                            *)
(***************************************************************************)
\* a search has ended / has returned a list
Completed(th) == rret[th].call > 0
Returned(th) == Completed(th) /\ rret[th].raised = None

NonIncreasing(results) ==
    \A i, j \in DOMAIN results :
        i < j => results[i].similarity >= results[j].similarity

\* C16: a search that was passed top_k = k, k >= 0, returns at most k
\* results, sorted by non-increasing similarity.
C16_AtMostTopKSorted ==
    \A th \in RThreads :
        (Returned(th) /\ rret[th].top_k # Absent) =>
            /\ Len(rret[th].results) <= rret[th].top_k
            /\ NonIncreasing(rret[th].results)

ChunkIds(seq) == { seq[i].chunk_id : i \in DOMAIN seq }

\* C17: a search_by_embedding that was passed min_similarity = m has, before
\* the truncation to top_k, exactly the cached records whose similarity to the
\* query is at least m.
C17_FilterByPassedMinSimilarity ==
    \A th \in RThreads :
        (/\ Returned(th)
         /\ rret[th].op = "search_by_embedding"
         /\ rret[th].min_similarity # Absent) =>
            LET records == rret[th].iterated
            IN  ChunkIds(rret[th].filtered) =
                  { records[i].chunk_id : i \in
                      { j \in DOMAIN records :
                          cosine_similarity(rret[th].query_embedding,
                                            records[j].embedding)
                            >= rret[th].min_similarity } }

\* C18: a search over a corpus that is empty returns the empty list, raises
\* nothing and makes no call of the embedding service, whatever the query,
\* top_k and min_similarity.
C18_EmptyCorpusReturnsEmpty ==
    \A th \in RThreads :
        (Completed(th) /\ rret[th].snapshots = { <<>> }) =>
            /\ rret[th].raised = None
            /\ rret[th].results = <<>>
            /\ rret[th].embeds = 0
            /\ embed_calls = 0

\* C18 witness: search("") over an empty corpus with top_k = 0 and
\* min_similarity = 1.1 has returned, the cache having been reloaded meanwhile
C18_Witness ==
    \E th \in RThreads :
        /\ Completed(th)
        /\ rret[th].op = "search"
        /\ rret[th].query = ""
        /\ rret[th].top_k = 0
        /\ rret[th].min_similarity = 1100
        /\ rret[th].snapshots = { <<>> }
        /\ rret[th].results = <<>>
        /\ rops > 0

\* the records whose embedding has the length of the query's
Matching(query_embedding, records) ==
    SelectSeq(records, LAMBDA r : ~DimensionMismatch(query_embedding, r.embedding))

\* C19: a search over records of which some have an embedding of another
\* length than the query's returns the ranked results of the other records
\* and does not fail.
C19_MismatchedRecordSkipped ==
    \A th \in RThreads :
        (Completed(th) /\ AnyMismatch(rret[th].query_embedding, rret[th].iterated)) =>
            /\ rret[th].raised = None
            /\ rret[th].results =
                 Truncate(SortBySimilarity(
                     Filtered(rret[th].query_embedding,
                              Matching(rret[th].query_embedding, rret[th].iterated),
                              rret[th].min_sim)), rret[th].k)

\* the embeddings the query of a search may have had: the one it was given or
\* got from embed_text, any when it returned before it asked for one
EmbeddingsOf(loc) ==
    IF loc.query_embedding = <<>> THEN QueryEmbeddings ELSE { loc.query_embedding }

\* what a search returns over a corpus it holds in full
ExpectedOver(loc, query_embedding, records) ==
    IF records = <<>> THEN <<>>
    ELSE Truncate(SortBySimilarity(
             Filtered(query_embedding, records, loc.min_sim)), loc.k)

\* C20: a search that runs while the cache is cleared or reloaded never fails
\* on the cleared reference, and what it returns is the result over one of
\* the complete corpora the cache held during the search.
C20_SearchSeesOneSnapshot ==
    \A th \in RThreads :
        Completed(th) =>
            /\ rret[th].raised # "TypeError"
            /\ rret[th].raised = None =>
                  \E records \in rret[th].snapshots :
                      \E query_embedding \in EmbeddingsOf(rret[th]) :
                          /\ ~AnyMismatch(query_embedding, records)
                          /\ rret[th].results =
                               ExpectedOver(rret[th], query_embedding, records)

(***************************************************************************)
(* Properties of the S3VectorStore.                                        *)
(***************************************************************************)
\* the index the last call started from: the cached one if there was one
IndexBefore == IF s3ret.cache_before.exists THEN s3ret.cache_before ELSE s3ret.index_before

\* the chunk ids whose keys are in the list save_vectors returned
SavedChunkIds ==
    { c.chunk_id : c \in { c2 \in Range(s3ret.batch) :
                             _get_vector_key(c2.chunk_id) \in Range(s3ret.saved_keys) } }

\* save_vectors has returned a list that holds some keys of the batch, not all
PartlySaved ==
    /\ s3ret.op = "save_vectors"
    /\ s3ret.update_index
    /\ s3ret.raised = None
    /\ s3ret.saved_keys # <<>>
    /\ Len(s3ret.saved_keys) < Len(s3ret.batch)

\* C21: after a save_vectors in which some writes failed and some succeeded,
\* the chunk ids the call added to the index are those of the returned keys:
\* the index holds what it held before and the saved chunks, nothing else.
C21_IndexListsOnlySavedChunks ==
    PartlySaved =>
        /\ index_object.records = IndexBefore.records \cup SavedChunkIds
        /\ index_cache.records = IndexBefore.records \cup SavedChunkIds

CountsItsRecords(index) == index.exists => index.chunk_count = Cardinality(index.records)

\* C22: whatever save_vectors and delete_vector calls were made, the stored
\* index and the cached index have chunk_count equal to the number of their
\* records.
C22_ChunkCountIsRecordCount ==
    /\ CountsItsRecords(index_object)
    /\ CountsItsRecords(index_cache)

\* C22 witness: a delete_vector after a save_vectors has taken a record out
\* of an index that still lists another one
C22_Witness ==
    /\ s3ret.op = "delete_vector"
    /\ s3ret.deleted
    /\ s3ret.call = MaxS3Ops
    /\ s3ret.chunk_id \in IndexBefore.records
    /\ index_object.records = IndexBefore.records \ {s3ret.chunk_id}
    /\ index_object.records # {}
    /\ index_cache = index_object

\* the objects load_all_vectors reads: the ".json" objects of the bucket
\* whose key does not end with INDEX_FILE
ScannedObjects ==
    { o \in vector_objects : ~endswith(_get_vector_key(o.chunk_id), INDEX_FILE) }

Throttled(outcome) == outcome \in {"ThrottlingException", "ServiceUnavailableException"}

\* C24: embed_text calls the service at most max_retries times; a call that
\* is not the first follows a throttled one and a wait of
\* retry_delay * 2^attempt; any other error ends the call at once with
\* EmbeddingError, and so does the last attempt when all were throttled.
C24_BoundedRetriesWithBackoff ==
    LET calls == Len(eloc.outcomes)
    IN  /\ calls <= self_max_retries
        /\ \A i \in 1..calls - 1 : Throttled(eloc.outcomes[i])
        /\ Len(eloc.sleeps) = IF epc = "invoke" \/ calls = 0 THEN calls ELSE calls - 1
        /\ \A i \in DOMAIN eloc.sleeps : eloc.sleeps[i] = self_retry_delay * Pow2(i - 1)
        /\ (calls > 0 /\ eloc.outcomes[calls] # "ok" /\ ~Throttled(eloc.outcomes[calls])) =>
              epc = "done" /\ eloc.raised = "EmbeddingError"
        /\ (calls > 0 /\ calls = self_max_retries /\ Throttled(eloc.outcomes[calls])) =>
              epc = "done" /\ eloc.raised = "EmbeddingError"
        /\ (calls > 0 /\ eloc.outcomes[calls] = "ok") =>
              epc = "done" /\ eloc.returned /\ eloc.raised = None
        /\ epc = "sleep" => calls < self_max_retries

\* C24 witness: with max_retries = 3 every attempt was throttled, two waits
\* were made and the call has ended with EmbeddingError
C24_Witness ==
    /\ self_max_retries = 3
    /\ epc = "done"
    /\ Len(eloc.outcomes) = 3
    /\ \A i \in 1..3 : Throttled(eloc.outcomes[i])
    /\ eloc.sleeps = <<self_retry_delay, 2 * self_retry_delay>>
    /\ eloc.raised = "EmbeddingError"

(***************************************************************************)
(* More properties of the Retriever.                                       *)
(***************************************************************************)
\* where the record with the chunk id stands in the list
ScanPosition(records, chunk_id) ==
    CHOOSE i \in DOMAIN records : records[i].chunk_id = chunk_id

\* C27: in the result of a search, results of equal similarity stand in the
\* order in which their records stand in the cached list.
C27_TiesKeepScanOrder ==
    \A th \in RThreads :
        Returned(th) =>
            \A i, j \in DOMAIN rret[th].results :
                (i < j /\ rret[th].results[i].similarity = rret[th].results[j].similarity) =>
                    ScanPosition(rret[th].iterated, rret[th].results[i].chunk_id)
                      < ScanPosition(rret[th].iterated, rret[th].results[j].chunk_id)

\* C27 witness: a search has returned two results of equal similarity from
\* the cached list <<c, a>>
C27_Witness ==
    \E th \in RThreads :
        /\ Returned(th)
        /\ Len(rret[th].results) = 2
        /\ rret[th].results[1].similarity = rret[th].results[2].similarity
        /\ rret[th].iterated[1].chunk_id = "c"
        /\ rret[th].iterated[2].chunk_id = "a"

\* th begins a search in this step
BeginsSearch(th) ==
    /\ rpc[th] = "idle"
    /\ rpc'[th] = "check" \/ rret'[th].call # rret[th].call

\* the locals of the search th has begun in this step
BegunSearch(th) == IF rpc'[th] = "check" THEN rloc'[th] ELSE rret'[th]

\* C28: a search reads the vector store exactly when no load has filled the
\* cache since the Retriever was built or clear_cache was called, an empty
\* list being a filled cache; and a filled cache changes only by a call of
\* clear_cache or load_vectors(force_reload=True).
C28_LoadsOnceUntilCleared ==
    [][/\ \A th \in RThreads :
             BeginsSearch(th) =>
                 BegunSearch(th).loads = (IF vectors_cache.loaded THEN 0 ELSE 1)
       /\ (vectors_cache.loaded /\ vectors_cache' # vectors_cache) => rops' = rops + 1
      ]_vars

\* C28 witness: the first search loaded an empty corpus, records were then
\* written to the store, and a later search has returned without reading it
C28_Witness ==
    \E th \in RThreads :
        /\ rret[th].call >= 2
        /\ rret[th].raised = None
        /\ rret[th].loads = 0
        /\ rret[th].snapshots = { <<>> }
        /\ corpus # <<>>

(***************************************************************************)
(* Properties of build_rag_prompt and cosine_similarity.                   *)
(***************************************************************************)
HistoryParts == SelectSeq(pret.prompt, LAMBDA part : part.kind = "history")

HasHistoryBlock == \E i \in DOMAIN pret.prompt : pret.prompt[i].kind = "history_header"

\* C25: the prompt renders the last 6 messages of the history, in their
\* order and no others (of 10 messages the last 6, the first 4 not), and has
\* no block of earlier conversation when the history is empty or None.
C25_PromptKeepsLastSixMessages ==
    pret.op = "build_rag_prompt" =>
        LET messages == pret.conversation_history.messages
            n == Len(messages)
            shown == IF n < 6 THEN n ELSE 6
        IN  /\ Len(HistoryParts) = shown
            /\ \A i \in 1..shown :
                  /\ HistoryParts[i].n = messages[n - shown + i].content
                  /\ HistoryParts[i].who = "user" <=> messages[n - shown + i].role = "user"
            /\ HasHistoryBlock <=> n > 0

\* C25 witness: a prompt built from 10 earlier messages shows the messages 5
\* to 10
C25_Witness ==
    /\ pret.op = "build_rag_prompt"
    /\ Len(pret.conversation_history.messages) = 10
    /\ [i \in 1..Len(HistoryParts) |-> HistoryParts[i].n] = <<5, 6, 7, 8, 9, 10>>

IsZeroVector(vec) == \A i \in DOMAIN vec : vec[i] = 0

\* C26: cosine_similarity of two vectors of one length, of which one has
\* only zeros, returns 0.0 and raises nothing.
C26_ZeroVectorGivesZero ==
    (/\ pret.op = "cosine_similarity"
     /\ Len(pret.vec1) = Len(pret.vec2)
     /\ IsZeroVector(pret.vec1) \/ IsZeroVector(pret.vec2)) =>
        pret.raised = None /\ pret.value = 0

\* C26 witness: cosine_similarity([3, 4], [0, 0]) has returned 0.0
C26_Witness ==
    /\ pret.op = "cosine_similarity"
    /\ pret.vec1 = <<3, 4>>
    /\ pret.vec2 = <<0, 0>>
    /\ pret.raised = None
    /\ pret.value = 0

(***************************************************************************)
(* More properties of the chat handlers.                                   *)
(***************************************************************************)
\* the payload has no session id, an empty message or one of more than
\* 10000 characters
FailsValidation(data) ==
    \/ data.sessionId = None
    \/ TextLen(data.message) = 0
    \/ TextLen(data.message) > 10000

\* C29: a chat_message whose payload fails validation ends at once with one
\* chat_error as its only event; no tier is entered and nothing is saved.
C29_InvalidPayloadRejected ==
    [][\A h \in Handlers, data \in Payloads :
          (FailsValidation(data) /\ Receive(h, data)) =>
              /\ pc'[h] = "done"
              /\ Len(emitted'[h]) = 1
              /\ emitted'[h][1].event = "chat_error"
              /\ tierlog'[h] = <<>>
              /\ dbMessages' = dbMessages
              /\ dbSessions' = dbSessions
      ]_vars

\* C29 witness: after a turn that was answered, a chat_message with a message
\* of 10001 characters has been rejected
C29_Witness ==
    \E h \in Handlers :
        /\ IsChatMessage(h)
        /\ turn[h].n = 2
        /\ pc[h] = "done"
        /\ emitted[h] = <<ChatErrorEvent(connected_sessions, "ValidationError")>>
        /\ tierlog[h] = <<>>
        /\ Len(dbMessages) = 2

\* C30: in the stored history of a session every assistant message stands
\* right after the user message of its own turn, also when the handlers of
\* two turns of the session interleave.
C30_TurnsStayPaired ==
    \A sess \in SessionIds :
        LET rows == SessionRows(dbMessages, sess)
        IN  \A k \in DOMAIN rows, n \in 1..MaxTurns :
                rows[k].message_id = Uuid("ai-", n) =>
                    /\ k > 1
                    /\ rows[k - 1].message_id = Uuid("user-", n)

\* the chat_response_chunk events a tier emitted in the turn of a handler, in
\* emission order, and their contents joined
TierChunks(h, tier) ==
    SelectSeq(emitted[h], LAMBDA e : e.event = "chat_response_chunk" /\ e.tier = tier)

Streamed(h, tier) ==
    Concat([i \in DOMAIN TierChunks(h, tier) |-> TierChunks(h, tier)[i].content])

\* C31: when a tier (managed, direct or echo) has completed a chat_message
\* turn, the contents of the chat_response_chunk events that tier emitted,
\* joined in emission order, are the content of the assistant message saved
\* for the turn, whatever whitespace the input message contains.
C31_StreamedEqualsSaved ==
    \A h \in Handlers, tier \in {"managed", "direct", "echo"} :
        (IsChatMessage(h) /\ Ended(h, tier, "completed")) =>
            /\ Len(AssistantRows(h)) = 1
            /\ Streamed(h, tier) = AssistantRows(h)[1].content

\* chat_response_complete is among the events of the turn of a handler
CompleteEmitted(h) ==
    \E i \in DOMAIN emitted[h] : emitted[h][i].event = "chat_response_complete"

\* the assistant message of the turn of a handler is stored in the session of
\* its request
AssistantSaved(h) ==
    \E k \in DOMAIN dbMessages :
        /\ dbMessages[k].message_id = AiMessageId(h)
        /\ dbMessages[k].session_id = request[h].sessionId
        /\ dbMessages[k].role = "assistant"

\* C32: whenever chat_response_complete has been emitted for a chat_message
\* turn, an assistant message with the message_id of that event is stored in
\* the session of the turn, whichever tier completed it.
C32_CompleteOnlyAfterSaved ==
    \A h \in Handlers :
        (IsChatMessage(h) /\ CompleteEmitted(h)) => AssistantSaved(h)

\* C32 witness: the echo tier has completed a turn after the direct tier
\* failed: its chat_response_complete is out and its message is stored
C32_Witness ==
    \E h \in Handlers :
        /\ IsChatMessage(h)
        /\ Has(h, "direct", "failed")
        /\ Ended(h, "echo", "completed")
        /\ CompleteEmitted(h)
        /\ AssistantSaved(h)

\* thread th returns from get_or_create_session(id) in this step: from
\* get_session when that found the session, from create_session otherwise
GetOrCreateReturns(th, id) ==
    \/ get_or_create_session(th, id) /\ HasSession(sessions, id)
    \/ get_or_create_session_create(th) /\ targ[th].session_id = id

\* the sessions stored under an id
StoredUnder(ss, id) == SelectSeq(ss, LAMBDA x : x.id = id)

\* what a returning get_or_create_session(id) leaves: the call returns the
\* session of that id, exactly one session is stored under the id, and it is
\* the session that was stored before, with its messages, when there was one
\* (a new, empty one otherwise)
OneSessionReturned(th, id) ==
    /\ ret'[th].op = "get_or_create_session"
    /\ ret'[th].session_id = id
    /\ Len(StoredUnder(sessions', id)) = 1
    /\ StoredUnder(sessions', id) =
          IF HasSession(sessions, id)
          THEN StoredUnder(sessions, id)
          ELSE <<[id |-> id, messages |-> <<>>]>>

\* C33: concurrent get_or_create_session calls for one session id all return
\* the one session stored under that id and leave exactly one session with
\* that id in the store; a call whose get_session found nothing and whose
\* create_session finds the session created meanwhile returns that session
\* with the messages appended to it.
C33_GetOrCreateReturnsOneSession ==
    [][\A th \in Threads, id \in StoreIds :
          GetOrCreateReturns(th, id) => OneSessionReturned(th, id)
      ]_vars

\* C33 with max_sessions >= 1: a store that can hold a session
C33_GetOrCreateReturnsOneSession_nonzero_capacity ==
    [][\A th \in Threads, id \in StoreIds :
          (max_sessions >= 1 /\ GetOrCreateReturns(th, id)) =>
              OneSessionReturned(th, id)
      ]_vars

\* C33 witness: a get_or_create_session whose get_session found nothing is
\* about to call create_session, while another thread's call has created
\* the session and a message has been appended to it
C33_Witness ==
    \E th \in Threads, other \in Threads, id \in StoreIds :
        /\ other # th
        /\ max_sessions >= 1
        /\ tpc[th] = "get_or_create_session:create_session"
        /\ targ[th].session_id = id
        /\ HasSession(sessions, id)
        /\ sessions[IndexOf(sessions, id)].messages # <<>>
        /\ ret[other].op = "add_message"
        /\ ret[other].session_id = id

\* C34: a load_all_vectors that follows a save_vectors, in which the listing
\* and every read succeed, returns the record of every chunk the save wrote
\* (chunk_id, document_id and content as written), whatever the chunk_id,
\* ids that end in "index" included.
C34_SavedVectorIsLoaded ==
    [][(s3ret.op = "save_vectors" /\ load_all_vectors("ok", {})) =>
          \A c \in Range(s3ret.batch) :
              c.chunk_id \in SavedChunkIds => c \in Range(s3ret'.records)
      ]_vars

\* the step is a save_vectors or a delete_vector whose put_object of the
\* index failed
IndexWriteFails ==
    \/ \E b \in Batches(MaxBatch), get \in Outcomes :
         \E fails \in SUBSET DOMAIN b : save_vectors(b, TRUE, fails, get, "ClientError")
    \/ \E c \in StoreChunks, get \in Outcomes :
         delete_vector(c.chunk_id, "ok", get, "ClientError")

\* C35: when the write of the index object fails in _update_index or in
\* delete_vector, the index cache is afterwards what it was before the call
\* (or, filled by the call's own load_index, what is stored), so that
\* load_index reports no entry and no count that was never stored.
C35_FailedIndexWriteKeepsCache ==
    [][IndexWriteFails =>
          (index_cache' = index_cache \/ index_cache' = index_object')
      ]_vars

\* the document ids of the chunks an index lists
DocumentsListed(index) ==
    { c.document_id : c \in { c2 \in StoreChunks : c2.chunk_id \in index.records } }

\* C36: whatever save_vectors and delete_vector calls were made, the stored
\* index has document_count equal to the number of distinct document ids
\* among the chunks its records list.
C36_DocumentCountIsDocumentsListed ==
    index_object.exists =>
        index_object.document_count = Cardinality(DocumentsListed(index_object))

====
